---------------------------- MODULE Spec2Model ----------------------------
(***************************************************************************)
(* Model of the EDINET financial-disclosure pipeline of                    *)
(* scripts/edinet_fetch_financials.py and its variant                      *)
(* scripts/edinet_fetch_financials_skip.py: document-list fetch per date,  *)
(* thread-pool enrichment (enrich_document), fan-in by listing date and    *)
(* the sqlite upsert of save_documents.                                    *)
(*                                                                         *)
(* Conventions.  A Python value that may be None is held as a sequence:    *)
(* None is <<>> and a value v is <<v>>.  A Python dict is a TLA+ function  *)
(* whose DOMAIN is the set of keys present.  Numbers are rationals         *)
(* [num, den] with den > 0; a float that is not finite has den = 0.        *)
(* Security codes and number texts are sequences of characters.  Dates     *)
(* and the period ends of facts are integers that order as the ISO texts   *)
(* do; in an XBRL payload every text, dates included, is a sequence of     *)
(* pieces.  Spec is a run of main(), SpecLive the same run under fair      *)
(* scheduling, and SpecUnit a single call of one function of the scripts.  *)
(***************************************************************************)
EXTENDS Integers, Sequences, FiniteSets, TLC

VARIABLES
    script,            \* which script runs: "main" or "skip"
    apiKey,            \* os.environ.get("EDINET_API_KEY") is set
    pc,                \* position of main()
    dateCursor,        \* next date of daterange(start_date, end_date)
    all_documents,     \* main: all_documents (the dict objects, by position)
    task,              \* state of the future submitted for each document
    taken,             \* futures already yielded by as_completed
    enriched_by_date,  \* main: enriched_by_date, in insertion order
    saveCursor,        \* next entry of enriched_by_date.items() to save
    conn,              \* the tables as the open connection sees them
    disk,              \* the committed tables
    now,               \* clock read by save_documents (fetched_at)
    inserted,          \* main: inserted
    status,            \* main: status
    rc,                \* return value of main(), <<>> while running
    history,           \* rows of table_HistoryRun
    fetchedZip,        \* positions for which fetch_document_zip was called
    listFailed,        \* dates whose fetch_documents call raised
    saveLog,           \* log of the save_documents calls of the run
    listedOn,          \* the date under which each document was listed
    call,              \* a function of the scripts called on its own: name and input
    result,            \* what that call returned
    warned             \* main() printed "[WARN] Failed to write HistoryRun"

vars == <<script, apiKey, pc, dateCursor, all_documents, task, taken,
          enriched_by_date, saveCursor, conn, disk, now, inserted, status,
          rc, history, fetchedZip, listFailed, saveLog, listedOn, call,
          result, warned>>

-----------------------------------------------------------------------------
(* Bounds of the model *)

NumDates == 2
MaxDocs == 2
Extra == 1
MaxFacts == 3
MaxText == 4
MaxEntries == 3
MaxElems == 4
MaxFactElems == 2

(* Program constants *)

MAX_WORKERS == 6

-----------------------------------------------------------------------------
(* Python values *)

None == <<>>
Some(v) == <<v>>
Val(o) == o[1]

Get(d, k) == IF k \in DOMAIN d THEN d[k] ELSE None

\* dict.update: keys of u override those of d
Update(d, u) == u @@ d

\* truthiness of an optional text held as a TLA+ string
TruthyStr(o) == o # None /\ Val(o) # ""

\* a or b, for optional texts
OrStr(a, b) == IF TruthyStr(a) THEN a ELSE b

\* truthiness of an optional text held as a sequence of characters
TruthyChars(o) == o # None /\ Len(Val(o)) > 0

OrChars(a, b) == IF TruthyChars(a) THEN a ELSE b

Num(n) == [num |-> n, den |-> 1]

RECURSIVE SeqToSet(_)
SeqToSet(s) == IF s = <<>> THEN {} ELSE {Head(s)} \cup SeqToSet(Tail(s))

Min(S) == CHOOSE x \in S : \A y \in S : x <= y


-----------------------------------------------------------------------------
(* Metric aliases: COMMON_METRICS *)

COMMON_METRICS ==
    [sales_amount |-> <<"netsales", "netsalessummaryofbusinessresults",
                        "revenue", "revenuesummaryofbusinessresults",
                        "operatingrevenue",
                        "operatingrevenuesummaryofbusinessresults">>,
     operating_income |-> <<"operatingincome",
                            "operatingincomesummaryofbusinessresults">>,
     ordinary_income |-> <<"ordinaryincome",
                           "ordinaryincomesummaryofbusinessresults">>,
     net_income |-> <<"profitloss", "profitlosssummaryofbusinessresults",
                      "profitlossattributabletoownersofparent",
                      "profitlossattributabletoownersofparentsummaryofbusinessresults">>,
     total_assets |-> <<"assets">>,
     total_liabilities |-> <<"liabilities">>,
     total_equity |-> <<"equity", "netassets">>,
     cash_and_equivalents |-> <<"cashandcashequivalents">>,
     operating_cf |-> <<"netcashprovidedbyusedinoperatingactivities">>,
     investing_cf |-> <<"netcashprovidedbyusedininvestingactivities",
                        "netcashprovidedbyusedininvestmentactivities">>,
     financing_cf |-> <<"netcashprovidedbyusedinfinancingactivities">>,
     eps |-> <<"earningspershare", "basicearningspershare",
               "earningspersharesummaryofbusinessresults">>,
     bps |-> <<"bookvaluepershare", "netassetspershare">>,
     roe |-> <<"returnonequity", "returnonequitysummaryofbusinessresults",
               "rateofreturnonequity">>,
     roa |-> <<"returnonassets", "returnonassetssummaryofbusinessresults",
               "rateofreturnonassets">>,
     employee_count |-> <<"numberofemployees", "numberofemployeesaverage">>]

MetricKeys == DOMAIN COMMON_METRICS

DerivedKeys == {"gross_margin", "operating_margin", "net_margin",
                "equity_ratio", "cash_ratio"}

\* str.lower() on the tag names that occur in the filings of the model
LowerTable ==
    [NetSales |-> "netsales", OperatingIncome |-> "operatingincome",
     ProfitLoss |-> "profitloss", Assets |-> "assets", Equity |-> "equity",
     NetAssets |-> "netassets", Revenue |-> "revenue",
     NumberOfEmployees |-> "numberofemployees",
     CashAndCashEquivalents |-> "cashandcashequivalents",
     NETSALES |-> "netsales"]

lower(s) == IF s \in DOMAIN LowerTable THEN LowerTable[s] ELSE s

-----------------------------------------------------------------------------
(* Metric resolution *)

\* sort_key of select_metric_value: (period_end or "", 1 if consolidated else 0)
sort_key(fact) ==
    <<IF fact.period_end = None THEN 0 ELSE Val(fact.period_end),
      IF fact.consolidated THEN 1 ELSE 0>>

KeyLeq(a, b) == a[1] < b[1] \/ (a[1] = b[1] /\ a[2] <= b[2])

SelectLastBest(facts, candidates) ==
    LET candidates_set == SeqToSet(candidates)
        matched == {i \in 1..Len(facts) : lower(facts[i].name) \in candidates_set}
        best == {i \in matched :
                    \A j \in matched : KeyLeq(sort_key(facts[j]), sort_key(facts[i]))}
    IN  IF matched = {} THEN None
        ELSE Some(facts[CHOOSE i \in best : \A j \in best : j <= i])

SelectFirstMatch(facts, candidates) ==
    LET candidates_set == SeqToSet(candidates)
        matched == {i \in 1..Len(facts) : lower(facts[i].name) \in candidates_set}
    IN  IF matched = {} THEN None ELSE Some(facts[Min(matched)])

\* select_metric_value: None, or the first matching fact of greatest sort_key
select_metric_value(facts, candidates) ==
    LET candidates_set == SeqToSet(candidates)
        matched == {i \in 1..Len(facts) : lower(facts[i].name) \in candidates_set}
        best == {i \in matched :
                    \A j \in matched : KeyLeq(sort_key(facts[j]), sort_key(facts[i]))}
    IN  IF matched = {} THEN None ELSE Some(facts[Min(best)])

\* a float that is not finite is held with denominator 0: inf as 1/0, -inf
\* as -1/0, nan as 0/0
Inf == [num |-> 1, den |-> 0]

NaN == [num |-> 0, den |-> 0]

IsNaN(v) == v.den = 0 /\ v.num = 0

IsInf(v) == v.den = 0 /\ v.num # 0

IntFloor(v) ==
    IF v.num >= 0 THEN Num(v.num \div v.den)
    ELSE Num(-((-v.num + v.den - 1) \div v.den))

\* int(value) of a finite float: truncation toward zero
int(v) ==
    IF v.num >= 0 THEN Num(v.num \div v.den) ELSE Num(-((-v.num) \div v.den))

\* what int(value) raises: ValueError for nan, OverflowError for an infinity
IntRaises(v) ==
    IF IsNaN(v) THEN "ValueError" ELSE IF IsInf(v) THEN "OverflowError" ELSE "none"

\* `except (TypeError, ValueError)` around int(value)
CaughtByInt(exc) == exc \in {"TypeError", "ValueError"}

MinOf(S) == CHOOSE x \in S : \A y \in S : x <= y

\* max(period_ends)
MaxOf(S) == CHOOSE x \in S : \A y \in S : y <= x

\* extract_metrics_from_xbrl raises when int() of the employee count raises
\* what its except clause does not catch
ExtractRaises(facts) ==
    LET sel == select_metric_value(facts, COMMON_METRICS["employee_count"])
    IN  /\ sel # None
        /\ IntRaises(Val(sel).value) # "none"
        /\ ~CaughtByInt(IntRaises(Val(sel).value))

\* extract_metrics_from_xbrl on the facts that collect_numeric_facts returned,
\* when it returns; the result is the metrics dict (with its period_end key)
extract_metrics_from_xbrl(facts) ==
    LET sel(k) == select_metric_value(facts, COMMON_METRICS[k])
        raw(k) == Val(sel(k)).value
        value(k) == IF sel(k) = None THEN None
                    ELSE IF k = "employee_count"
                    THEN (IF IntRaises(raw(k)) = "none" THEN Some(int(raw(k)))
                          ELSE None)
                    ELSE Some(raw(k))
        period_ends == {Val(Val(sel(k)).period_end) :
                          k \in {m \in MetricKeys :
                                    sel(m) # None /\ Val(sel(m)).period_end # None}}
    IN  [k \in MetricKeys |-> value(k)] @@
        [period_end |-> IF period_ends = {} THEN None ELSE Some(MaxOf(period_ends))]

NoQuotientNever(numerator, denominator) == FALSE

\* `if numerator is None or denominator in (None, 0)` of safe_div
NoQuotient(numerator, denominator) ==
    numerator = None \/ denominator = None \/ Val(denominator).num = 0

\* numerator / denominator raises TypeError on None and ZeroDivisionError on 0
TrueDivRaises(numerator, denominator) ==
    numerator = None \/ denominator = None \/ Val(denominator).num = 0

\* safe_div reaches its division with operands on which the division raises
SafeDivRaises(numerator, denominator) ==
    ~NoQuotient(numerator, denominator) /\ TrueDivRaises(numerator, denominator)

\* safe_div: None when an operand is None or the denominator is zero
safe_div(numerator, denominator) ==
    IF NoQuotient(numerator, denominator) THEN None
    ELSE LET n == Val(numerator).num * Val(denominator).den
             d == Val(numerator).den * Val(denominator).num
         IN  Some(IF d < 0 THEN [num |-> -n, den |-> -d] ELSE [num |-> n, den |-> d])

\* one of the four divisions of compute_derived raises
ComputeDerivedRaises(metrics) ==
    \/ SafeDivRaises(Get(metrics, "operating_income"), Get(metrics, "sales_amount"))
    \/ SafeDivRaises(Get(metrics, "net_income"), Get(metrics, "sales_amount"))
    \/ SafeDivRaises(Get(metrics, "total_equity"), Get(metrics, "total_assets"))
    \/ SafeDivRaises(Get(metrics, "cash_and_equivalents"), Get(metrics, "total_assets"))

compute_derived(metrics) ==
    [gross_margin |-> None,
     operating_margin |-> safe_div(Get(metrics, "operating_income"), Get(metrics, "sales_amount")),
     net_margin |-> safe_div(Get(metrics, "net_income"), Get(metrics, "sales_amount")),
     equity_ratio |-> safe_div(Get(metrics, "total_equity"), Get(metrics, "total_assets")),
     cash_ratio |-> safe_div(Get(metrics, "cash_and_equivalents"), Get(metrics, "total_assets"))]

\* round(float(value), 4): the nearest multiple of 1/10000
round_numeric(value) ==
    IF value = None THEN None
    ELSE LET v == Val(value)
         IN  Some([num |-> (2 * 10000 * v.num + v.den) \div (2 * v.den), den |-> 10000])


-----------------------------------------------------------------------------
(* Security codes *)

Digits == {"0", "1", "2", "3", "4", "5", "6", "7", "8", "9"}

isdigit(text) == Len(text) > 0 /\ \A i \in 1..Len(text) : text[i] \in Digits

RECURSIVE zfill(_, _)
zfill(text, width) == IF Len(text) >= width THEN text ELSE zfill(<<"0">> \o text, width)

\* str.strip() on the codes of the model, whose only whitespace is " "
RECURSIVE lstrip(_)
lstrip(text) ==
    IF text # <<>> /\ Head(text) = " " THEN lstrip(Tail(text)) ELSE text

RECURSIVE rstrip(_)
rstrip(text) ==
    IF text # <<>> /\ text[Len(text)] = " "
    THEN rstrip(SubSeq(text, 1, Len(text) - 1)) ELSE text

strip(text) == rstrip(lstrip(text))

\* normalize_sec_code of edinet_fetch_financials.py
normalize_sec_code(value) ==
    IF value = None THEN None
    ELSE LET text == strip(Val(value))
             trimmed == IF Len(text) = 5 /\ text[5] = "0"
                        THEN SubSeq(text, 1, 4) ELSE text
         IN  IF text = <<>> THEN None
             ELSE IF isdigit(trimmed) THEN Some(zfill(trimmed, 4))
             ELSE Some(trimmed)

\* normalize_sec_code of edinet_fetch_financials_skip.py: the trailing 0 is
\* trimmed only from an all-digit code
normalize_sec_code_skip(value) ==
    IF value = None THEN None
    ELSE LET text == strip(Val(value))
         IN  IF text = <<>> THEN None
             ELSE IF isdigit(text)
                  THEN Some(zfill(IF Len(text) = 5 /\ text[5] = "0"
                                  THEN SubSeq(text, 1, 4) ELSE text, 4))
             ELSE Some(text)


-----------------------------------------------------------------------------
(* Number text: parse_number *)

\* text.replace(old, "")
replace(text, old) == SelectSeq(text, LAMBDA c : c # old)

DigitValue(c) == CHOOSE n \in 0..9 : <<"0", "1", "2", "3", "4", "5", "6", "7", "8", "9">>[n + 1] = c

RECURSIVE DecimalValue(_)
DecimalValue(digits) ==
    IF digits = <<>> THEN 0
    ELSE 10 * DecimalValue(SubSeq(digits, 1, Len(digits) - 1))
         + DigitValue(digits[Len(digits)])

RECURSIVE Pow10(_)
Pow10(n) == IF n = 0 THEN 1 ELSE 10 * Pow10(n - 1)

\* the text float() reads after it dropped surrounding blanks and one sign
Unsigned(text) ==
    LET t == strip(text)
    IN  IF t # <<>> /\ Head(t) \in {"-", "+"} THEN Tail(t) ELSE t

\* what float(text) raises, on texts of digits, point, sign, blank, comma,
\* parenthesis and letters that spell no float: ValueError unless the text
\* is an optional sign and digits with at most one point
FloatRaises(text) ==
    LET u == Unsigned(text)
        points == {i \in 1..Len(u) : u[i] = "."}
        digs == {i \in 1..Len(u) : u[i] \in Digits}
    IN  IF Cardinality(points) <= 1 /\ digs # {} /\ digs \cup points = 1..Len(u)
        THEN "none" ELSE "ValueError"

\* float(text) when it returns: the decimal number the text spells
float(text) ==
    LET t == strip(text)
        u == Unsigned(text)
        points == {i \in 1..Len(u) : u[i] = "."}
        frac == IF points = {} THEN 0 ELSE Len(u) - Min(points)
        magnitude == DecimalValue(SelectSeq(u, LAMBDA c : c \in Digits))
    IN  [num |-> IF Head(t) = "-" THEN -magnitude ELSE magnitude,
         den |-> Pow10(frac)]

CaughtByParseNothing(exc) == FALSE

\* `except ValueError` around float(text)
CaughtByParse(exc) == exc = "ValueError"

\* the text parse_number hands to float(): stripped, without the enclosing
\* parentheses, without commas
Cleaned(value) ==
    LET text == strip(Val(value))
        wrapped == text # <<>> /\ Head(text) = "(" /\ text[Len(text)] = ")"
    IN  replace(IF wrapped THEN SubSeq(text, 2, Len(text) - 1) ELSE text, ",")

\* parse_number lets an exception escape
ParseNumberRaises(value) ==
    /\ value # None
    /\ strip(Val(value)) # <<>>
    /\ FloatRaises(Cleaned(value)) # "none"
    /\ ~CaughtByParse(FloatRaises(Cleaned(value)))

\* parse_number when it returns
parse_number(value) ==
    IF value = None THEN None
    ELSE LET text == strip(Val(value))
             negative == text # <<>> /\ Head(text) = "(" /\ text[Len(text)] = ")"
             num == float(Cleaned(value))
         IN  IF text = <<>> THEN None
             ELSE IF FloatRaises(Cleaned(value)) # "none" THEN None
             ELSE IF negative THEN Some([num |-> -num.num, den |-> num.den])
             ELSE Some(num)

-----------------------------------------------------------------------------
(* The outside world: document summaries, archives and filings *)

\* DEFAULT_KEYWORDS; a description is a sequence of words and the keyword
\* "AnnualSecuritiesReport" stands for the report title the script looks for
DEFAULT_KEYWORDS == <<"AnnualSecuritiesReport">>

Fact(name, value, period_end, consolidated) ==
    [name |-> name, value |-> Num(value), period_end |-> period_end,
     consolidated |-> consolidated]

\* facts of a filing, as collect_numeric_facts returns them
FactsA ==
    <<Fact("NetSales", 100, Some(20240331), FALSE),
      Fact("NetSales", 120, Some(20240331), TRUE),
      Fact("OperatingIncome", 30, Some(20240331), TRUE),
      Fact("Assets", 400, Some(20240331), TRUE),
      Fact("Equity", 100, Some(20240331), TRUE)>>

FactsB ==
    <<Fact("Revenue", 50, Some(20230331), FALSE),
      Fact("ProfitLoss", -5, None, FALSE),
      Fact("NumberOfEmployees", 7, Some(20230331), FALSE)>>

Entry(ext, size, parses, root, facts) ==
    [ext |-> ext, file_size |-> size, parses |-> parses, root |-> root,
     facts |-> facts]

\* what fetch_document_zip can give: an exception, bytes that are no zip
\* archive, or an archive (a sequence of entries)
NetError == [kind |-> "neterror", entries |-> <<>>]
BadZip == [kind |-> "badzip", entries |-> <<>>]
Zip(entries) == [kind |-> "zip", entries |-> entries]

ZipResponses ==
    {NetError, BadZip,
     Zip(<<Entry(".xsd", 9, TRUE, "schema", <<>>)>>),
     Zip(<<Entry(".xbrl", 4, FALSE, "", <<>>)>>),
     Zip(<<Entry(".xsd", 9, TRUE, "schema", <<>>),
           Entry(".xml", 2, TRUE, "manifest", <<>>),
           Entry(".xbrl", 5, TRUE, "xbrl", FactsA)>>),
     Zip(<<Entry(".xhtml", 3, TRUE, "html", FactsB)>>)}

Summary(docID, secCode, filerName, desc, flag) ==
    [docID |-> docID, edinetCode |-> Some("E1"), secCode |-> secCode,
     filerName |-> filerName, docDescription |-> Some(desc),
     submitDateTime |-> Some(1), xbrlFlag |-> flag]

\* the document summaries a document list can hold
DocPool ==
    {Summary(Some("D1"), Some(<<"7", "2", "0", "3", "0">>), Some("Alpha"),
             <<"AnnualSecuritiesReport">>, Some("1")),
     Summary(Some("D1"), None, Some("Alpha-amended"),
             <<"Amended", "AnnualSecuritiesReport">>, Some("0")),
     Summary(None, Some(<<"1", "3">>), Some("Gamma"),
             <<"AnnualSecuritiesReport">>, Some("1")),
     Summary(Some("D3"), None, Some("Delta"),
             <<"ExtraordinaryReport">>, Some("1"))}

\* a document that goes through the pool without an archive fetch
PlainDoc ==
    Summary(Some("D2"), None, Some("Beta"), <<"AnnualSecuritiesReport">>, Some("0"))

RECURSIVE SeqsUpTo(_, _)
SeqsUpTo(S, n) ==
    IF n = 0 THEN {<<>>}
    ELSE LET shorter == SeqsUpTo(S, n - 1)
         IN  shorter \cup {Append(q, x) : q \in {r \in shorter : Len(r) = n - 1}, x \in S}

\* the document lists fetch_documents can return when `have` documents were
\* listed so far: any list that keeps the batch within MaxDocs, or, as the
\* first list of a run, one list wider than the worker pool
DocLists(have) ==
    SeqsUpTo(DocPool, IF have > MaxDocs THEN 0 ELSE MaxDocs - have)
    \cup (IF have = 0 THEN {[i \in 1..(MAX_WORKERS + Extra) |-> PlainDoc]} ELSE {})

\* looks_like_financial
looks_like_financial(doc, keywords) ==
    LET desc == IF Get(doc, "docDescription") = None THEN <<>>
                ELSE Val(Get(doc, "docDescription"))
    IN  \E k \in SeqToSet(keywords) : k \in SeqToSet(desc)

RECURSIVE Filter(_, _)
Filter(s, keywords) ==
    IF s = <<>> THEN <<>>
    ELSE IF looks_like_financial(Head(s), keywords)
         THEN <<Head(s)>> \o Filter(Tail(s), keywords)
         ELSE Filter(Tail(s), keywords)

-----------------------------------------------------------------------------
(* Archive unpacking and enrichment *)

ExtensionsAndSchema == {".xbrl", ".xml", ".xhtml", ".html", ".xsd"}

\* the name endings (of the lower-cased name) that make an entry a candidate
Extensions == {".xbrl", ".xml", ".xhtml", ".html"}

\* candidates.sort(key=file_size, reverse=True): a stable sort, so entries of
\* equal size keep their archive order
RECURSIVE SortBySize(_, _)
SortBySize(entries, idxs) ==
    IF idxs = {} THEN <<>>
    ELSE LET top == {i \in idxs : \A j \in idxs : entries[j].file_size <= entries[i].file_size}
             first == Min(top)
         IN  <<entries[first]>> \o SortBySize(entries, idxs \ {first})

RECURSIVE FirstPayload(_)
FirstPayload(candidates) ==
    IF candidates = <<>> THEN None
    ELSE IF Head(candidates).parses /\ Head(candidates).root \in {"xbrl", "html"}
         THEN Some(Head(candidates))
         ELSE FirstPayload(Tail(candidates))

\* extract_xbrl_bytes on an archive: the payload entry, or None
extract_xbrl_bytes(entries) ==
    FirstPayload(SortBySize(entries, {i \in 1..Len(entries) : entries[i].ext \in Extensions}))

NullMetrics == [k \in MetricKeys |-> None]

NeedsFetchAnyFlag(doc) == TruthyStr(OrStr(Get(doc, "docID"), Get(doc, "docId")))

\* enrich_document fetches the archive exactly for these documents
NeedsFetch(doc) ==
    LET doc_id == OrStr(Get(doc, "docID"), Get(doc, "docId"))
        xbrl_flag == OrStr(Get(doc, "xbrlFlag"), Get(doc, "XBRLFlag"))
    IN  TruthyStr(doc_id) /\ xbrl_flag = Some("1")

\* enrich_document raises: fetch_document_zip, zipfile.ZipFile or
\* extract_metrics_from_xbrl raised
EnrichRaises(doc, zip) ==
    /\ NeedsFetch(doc)
    /\ \/ zip.kind \in {"neterror", "badzip"}
       \/ /\ extract_xbrl_bytes(zip.entries) # None
          /\ ExtractRaises(Val(extract_xbrl_bytes(zip.entries)).facts)

\* enrich_document when it returns: the document, updated in place
enrich_document(doc, zip) ==
    LET xbrl == IF NeedsFetch(doc) THEN extract_xbrl_bytes(zip.entries) ELSE None
        metrics == IF xbrl = None THEN NullMetrics
                   ELSE extract_metrics_from_xbrl(Val(xbrl).facts)
        withMetrics == Update(doc, metrics)
        withFacts == Update(withMetrics, [all_numeric_facts_json |-> None])
    IN  Update(withFacts, compute_derived(metrics))


-----------------------------------------------------------------------------
(* Persistence: save_documents *)

DocId(doc) == OrStr(Get(doc, "docID"), Get(doc, "docId"))

RawSecCode(doc) == OrChars(Get(doc, "secCode"), Get(doc, "sec_code"))

\* the row save_documents of edinet_fetch_financials.py builds for a document;
\* json.dumps(doc) is one-to-one on the documents, and is held as the document
Row(date_str, doc, fetched_at) ==
    [fetched_date |-> date_str,
     doc_id |-> DocId(doc),
     edinet_code |-> Get(doc, "edinetCode"),
     sec_code |-> normalize_sec_code(RawSecCode(doc)),
     filer_name |-> Get(doc, "filerName"),
     doc_description |-> Get(doc, "docDescription"),
     submit_datetime |-> Get(doc, "submitDateTime"),
     period_end |-> Get(doc, "period_end"),
     metric |-> [k \in MetricKeys |->
                    IF k = "employee_count" THEN Get(doc, k)
                    ELSE round_numeric(Get(doc, k))],
     derived |-> [k \in DerivedKeys |-> round_numeric(Get(doc, k))],
     all_numeric_facts_json |-> Get(doc, "all_numeric_facts_json"),
     raw_json |-> doc,
     fetched_at |-> fetched_at]

\* the row save_documents of edinet_fetch_financials_skip.py builds
RowSkip(date_str, doc, fetched_at) ==
    [fetched_date |-> date_str,
     doc_id |-> DocId(doc),
     edinet_code |-> Get(doc, "edinetCode"),
     sec_code |-> normalize_sec_code_skip(RawSecCode(doc)),
     filer_name |-> Get(doc, "filerName"),
     doc_description |-> Get(doc, "docDescription"),
     submit_datetime |-> Get(doc, "submitDateTime"),
     period_end |-> Get(doc, "period_end"),
     metric |-> [k \in MetricKeys |-> Get(doc, k)],
     derived |-> [k \in DerivedKeys |-> Get(doc, k)],
     all_numeric_facts_json |-> Get(doc, "all_numeric_facts_json"),
     raw_json |-> doc,
     fetched_at |-> fetched_at]

\* rows of a table that conflict with `row` on the unique index on doc_id;
\* NULL never conflicts with NULL
Conflicts(table, row) ==
    {i \in 1..Len(table) : row.doc_id # None /\ table[i].doc_id = row.doc_id}

PlainInsert(table, row) == Append(table, row)

UpsertKeepDate(table, row) ==
    IF Conflicts(table, row) = {} THEN Append(table, row)
    ELSE LET i == Min(Conflicts(table, row))
         IN  [table EXCEPT ![i] = [row EXCEPT !.doc_id = table[i].doc_id,
                                              !.fetched_date = table[i].fetched_date]]

\* INSERT ... ON CONFLICT(doc_id) DO UPDATE SET every column but doc_id
\* = excluded.column
Upsert(table, row) ==
    IF Conflicts(table, row) = {} THEN Append(table, row)
    ELSE LET i == Min(Conflicts(table, row))
         IN  [table EXCEPT ![i] = [row EXCEPT !.doc_id = table[i].doc_id]]

InsertOrReplace(table, row) ==
    IF Conflicts(table, row) = {} THEN Append(table, row)
    ELSE [table EXCEPT ![Min(Conflicts(table, row))] = row]

\* INSERT ... ON CONFLICT(doc_id) DO NOTHING
InsertOrIgnore(table, row) ==
    IF Conflicts(table, row) = {} THEN Append(table, row) ELSE table

\* executemany of the upsert over the first n rows
RECURSIVE ExecuteMany(_, _, _)
ExecuteMany(table, rows, n) ==
    IF n = 0 THEN table
    ELSE Upsert(ExecuteMany(table, rows, n - 1), rows[n])

RECURSIVE ExecuteManyIgnore(_, _, _)
ExecuteManyIgnore(table, rows, n) ==
    IF n = 0 THEN table
    ELSE InsertOrIgnore(ExecuteManyIgnore(table, rows, n - 1), rows[n])

EmptyDb ==
    [table_docment_all |-> <<>>, table_docment_serect |-> <<>>,
     edinet_documents |-> <<>>]

RowsAll(date_str, documents, fetched_at) ==
    [i \in 1..Len(documents) |-> Row(date_str, documents[i], fetched_at)]

\* rows_select: the rows whose normalized security code is truthy
RowsSelect(rows_all) == SelectSeq(rows_all, LAMBDA r : TruthyChars(r.sec_code))

RowsSkip(date_str, documents, fetched_at) ==
    [i \in 1..Len(documents) |-> RowSkip(date_str, documents[i], fetched_at)]

\* where a save_documents call can raise
SaveOutcomes == {"ok", "all", "select", "commit"}

\* the tables as the connection sees them when save_documents of
\* edinet_fetch_financials.py has run up to its outcome: `n` rows of the
\* failing executemany were applied before it raised
save_documents(db, date_str, documents, fetched_at, outcome, n) ==
    LET rows_all == RowsAll(date_str, documents, fetched_at)
        rows_select == RowsSelect(rows_all)
    IN  IF outcome = "all"
        THEN [db EXCEPT !.table_docment_all = ExecuteMany(@, rows_all, n)]
        ELSE IF outcome = "select"
        THEN [db EXCEPT !.table_docment_all = ExecuteMany(@, rows_all, Len(rows_all)),
                        !.table_docment_serect = ExecuteMany(@, rows_select, n)]
        ELSE [db EXCEPT !.table_docment_all = ExecuteMany(@, rows_all, Len(rows_all)),
                        !.table_docment_serect =
                            ExecuteMany(@, rows_select, Len(rows_select))]

\* the same for save_documents of edinet_fetch_financials_skip.py, whose one
\* executemany writes edinet_documents
save_documents_skip(db, date_str, documents, fetched_at, outcome, n) ==
    LET rows == RowsSkip(date_str, documents, fetched_at)
    IN  IF outcome = "all"
        THEN [db EXCEPT !.edinet_documents = ExecuteManyIgnore(@, rows, n)]
        ELSE [db EXCEPT !.edinet_documents = ExecuteManyIgnore(@, rows, Len(rows))]

\* the points at which a call on these documents can raise, with the number
\* of rows its failing executemany had applied
SavePoints(sc, date_str, documents) ==
    LET rows_all == RowsAll(date_str, documents, 0)
        nsel == Len(RowsSelect(rows_all))
    IN  {<<"ok", 0>>, <<"commit", 0>>}
        \cup {<<"all", n>> : n \in 0..(Len(documents) - 1)}
        \cup (IF sc = "main" THEN {<<"select", n>> : n \in 0..(nsel - 1)} ELSE {})

DurableAutocommit(db, seen, outcome) == seen

\* what the store keeps of the connection's tables after the call: the
\* commit makes them durable, and a call that raised leaves its writes in the
\* open transaction, which conn.close() discards
Durable(db, seen, outcome) == IF outcome = "ok" THEN seen ELSE db


-----------------------------------------------------------------------------
(* main() *)

Positions == 1..Len(all_documents)

Running(t) == {i \in 1..Len(t) : t[i] = "running"}

Finished(t) == {i \in 1..Len(t) : t[i] \in {"done", "raised"}}

\* ThreadPoolExecutor(max_workers=MAX_WORKERS): a queued call starts only on
\* one of at most MAX_WORKERS worker threads
WorkerAlwaysFree(t) == TRUE

WorkerFree(t) == Cardinality(Running(t)) < MAX_WORKERS

\* the work queue of the executor is first in, first out
NextQueued(t) == Min({i \in 1..Len(t) : t[i] = "pending"})

\* the except clause around future.result() catches what enrich_document
\* raises
HandlerCatchesNothing(t) == FALSE

HandlerCatches(t) == t = "raised"

setdefault_overwrite(groups, key, enriched) ==
    IF \E g \in 1..Len(groups) : groups[g].date = key
    THEN LET g == CHOOSE g \in 1..Len(groups) : groups[g].date = key
         IN  [groups EXCEPT ![g].docs = <<enriched>>]
    ELSE Append(groups, [date |-> key, docs |-> <<enriched>>])

\* enriched_by_date.setdefault(key, []).append(enriched)
setdefault_append(groups, key, enriched) ==
    IF \E g \in 1..Len(groups) : groups[g].date = key
    THEN LET g == CHOOSE g \in 1..Len(groups) : groups[g].date = key
         IN  [groups EXCEPT ![g].docs = Append(@, enriched)]
    ELSE Append(groups, [date |-> key, docs |-> <<enriched>>])

AnyCollected(tk, n) == tk # {} \/ n = 0

\* the as_completed loop has yielded every future
AllCollected(tk, n) == tk = 1..n

OnListErrorContinue(sc) == "listing"

\* where main() goes when fetch_documents raises for a date: both scripts
\* leave the date loop and end the run
OnListError(sc) == "done"

HistoryRow(st, total_docs, ins, err) ==
    [status |-> st, total_docs |-> total_docs, inserted_docs |-> ins,
     error_message |-> err]

\* the finally block of main() of edinet_fetch_financials.py writes one row
\* of table_HistoryRun, unless that write itself fails (wrote = FALSE);
\* edinet_fetch_financials_skip.py keeps no history
WriteHistoryOnSuccess(h, sc, wrote, st, total_docs, ins, err) ==
    IF sc = "main" /\ wrote /\ st = "success"
    THEN Append(h, HistoryRow(st, total_docs, ins, err)) ELSE h

WriteHistory(h, sc, wrote, st, total_docs, ins, err) ==
    IF sc = "main" /\ wrote THEN Append(h, HistoryRow(st, total_docs, ins, err)) ELSE h

\* `except Exception as e: print("[WARN] Failed to write HistoryRun ...")`:
\* a history write that raises is reported and the run returns as it would
WarnsHistory(sc, wrote) == sc = "main" /\ ~wrote

\* no function is called on its own during a run of main()
NoCall == [fn |-> "main"]

\* the outcome of a call: not yet made, returned a value, or raised
Pending == [kind |-> "pending"]
Returned(v) == [kind |-> "returned", value |-> v]
Raised(exc) == [kind |-> "raised", exc |-> exc]

KeyNotChecked(key) == "listing"

\* `if not api_key: ... return 1` at the head of main(): without the
\* credential the run ends there
AfterKeyCheck(key) == IF key THEN "listing" ELSE "done"

Init ==
    /\ script \in {"main", "skip"}
    /\ apiKey \in BOOLEAN
    /\ pc = "start"
    /\ dateCursor = 1
    /\ all_documents = <<>>
    /\ task = <<>>
    /\ taken = {}
    /\ enriched_by_date = <<>>
    /\ saveCursor = 1
    /\ conn = EmptyDb
    /\ disk = EmptyDb
    /\ now = 0
    /\ inserted = 0
    /\ status = "failed"
    /\ rc = None
    /\ history = <<>>
    /\ fetchedZip = {}
    /\ listFailed = {}
    /\ saveLog = <<>>
    /\ listedOn = <<>>
    /\ call = NoCall
    /\ result = Pending
    /\ warned = FALSE

\* the credential check: without EDINET_API_KEY main() returns 1 at once
CheckKey ==
    /\ pc = "start"
    /\ pc' = AfterKeyCheck(apiKey)
    /\ rc' = IF pc' = "done" THEN Some(1) ELSE rc
    /\ UNCHANGED <<script, apiKey, dateCursor, all_documents, task, taken,
                   enriched_by_date, saveCursor, conn, disk, now, inserted,
                   status, history, fetchedZip, listFailed, saveLog,
                   listedOn, call, result, warned>>

\* one turn of the date loop, fetch_documents returning a document list
FetchDocuments(documents) ==
    /\ pc = "listing"
    /\ dateCursor <= NumDates
    /\ LET kept == Filter(documents, DEFAULT_KEYWORDS)
           dated == [i \in 1..Len(kept) |->
                        Update(kept[i], [_fetched_date |-> dateCursor])]
       IN  /\ all_documents' = all_documents \o dated
           /\ listedOn' = listedOn \o [i \in 1..Len(kept) |-> dateCursor]
    /\ dateCursor' = dateCursor + 1
    /\ UNCHANGED <<script, apiKey, pc, task, taken, enriched_by_date,
                   saveCursor, conn, disk, now, inserted, status, rc, history,
                   fetchedZip, listFailed, saveLog, call, result,
                   warned>>

\* one turn of the date loop, fetch_documents raising
FetchDocumentsRaises(wrote) ==
    /\ pc = "listing"
    /\ dateCursor <= NumDates
    /\ listFailed' = listFailed \cup {dateCursor}
    /\ pc' = OnListError(script)
    /\ dateCursor' = dateCursor + 1
    /\ IF pc' = "done"
       THEN /\ rc' = Some(1)
            /\ history' = WriteHistory(history, script, wrote, "failed", 0, 0,
                                       Some("Failed to fetch documents"))
            /\ warned' = WarnsHistory(script, wrote)
       ELSE UNCHANGED <<rc, history, warned>>
    /\ UNCHANGED <<script, apiKey, all_documents, task, taken,
                   enriched_by_date, saveCursor, conn, disk, now, inserted,
                   status, fetchedZip, saveLog,
                   listedOn, call, result>>

\* after the date loop: sqlite3.connect, ensure_schema, and one
\* executor.submit per document
Submit ==
    /\ pc = "listing"
    /\ dateCursor > NumDates
    /\ task' = [i \in Positions |-> "pending"]
    /\ pc' = IF AllCollected({}, Len(all_documents)) THEN "saving" ELSE "fanin"
    /\ UNCHANGED <<script, apiKey, dateCursor, all_documents, taken,
                   enriched_by_date, saveCursor, conn, disk, now, inserted,
                   status, rc, history, fetchedZip, listFailed, saveLog,
                   listedOn, call, result, warned>>

\* a worker thread takes the next queued call
StartTask ==
    /\ pc = "fanin"
    /\ \E i \in 1..Len(task) : task[i] = "pending"
    /\ WorkerFree(task)
    /\ task' = [task EXCEPT ![NextQueued(task)] = "running"]
    /\ UNCHANGED <<script, apiKey, pc, dateCursor, all_documents, taken,
                   enriched_by_date, saveCursor, conn, disk, now, inserted,
                   status, rc, history, fetchedZip, listFailed, saveLog,
                   listedOn, call, result, warned>>

EnrichEvery(docs, i, zip) ==
    [j \in 1..Len(docs) |->
        IF j = i \/ ~EnrichRaises(docs[j], zip) THEN enrich_document(docs[j], zip)
        ELSE docs[j]]

\* executor.submit(enrich_document, api_key, doc, ...): the call works on
\* its own document, with locals of its own, and updates that dict in place
EnrichInPlace(docs, i, zip) == [docs EXCEPT ![i] = enrich_document(@, zip)]

HalfEnriched(doc) == Update(doc, NullMetrics)

\* the document when enrich_document raises: its three updates of doc are
\* its last statements, after every call that can raise
LeftByRaise(doc) == doc

\* enrich_document runs to its end on a worker thread; zip is what
\* fetch_document_zip gives if it is called
FinishTask(i, zip) ==
    /\ pc = "fanin"
    /\ task[i] = "running"
    /\ fetchedZip' = IF NeedsFetch(all_documents[i]) THEN fetchedZip \cup {i}
                     ELSE fetchedZip
    /\ IF EnrichRaises(all_documents[i], zip)
       THEN /\ task' = [task EXCEPT ![i] = "raised"]
            /\ all_documents' =
                   [all_documents EXCEPT ![i] = LeftByRaise(@)]
       ELSE /\ task' = [task EXCEPT ![i] = "done"]
            /\ all_documents' = EnrichInPlace(all_documents, i, zip)
    /\ UNCHANGED <<script, apiKey, pc, dateCursor, taken, enriched_by_date,
                   saveCursor, conn, disk, now, inserted, status, rc, history,
                   listFailed, saveLog,
                   listedOn, call, result, warned>>

\* one turn of the as_completed loop; after the last one the executor is
\* shut down and the save loop begins
Collect(i) ==
    /\ pc = "fanin"
    /\ i \in Finished(task) \ taken
    /\ IF task[i] = "raised" /\ ~HandlerCatches(task[i])
       THEN /\ pc' = "unwind"
            /\ UNCHANGED <<taken, enriched_by_date>>
       ELSE /\ taken' = taken \cup {i}
            /\ enriched_by_date' =
                   setdefault_append(enriched_by_date,
                                     all_documents[i]["_fetched_date"],
                                     all_documents[i])
            /\ pc' = IF AllCollected(taken', Len(all_documents))
                     THEN "saving" ELSE "fanin"
    /\ UNCHANGED <<script, apiKey, dateCursor, all_documents, task,
                   saveCursor, conn, disk, now, inserted, status, rc, history,
                   fetchedZip, listFailed, saveLog,
                   listedOn, call, result, warned>>

\* one turn of the save loop: save_documents for the next date group, up to
\* its commit or to the point where it raises
SaveDocuments(outcome, n) ==
    /\ pc = "saving"
    /\ saveCursor <= Len(enriched_by_date)
    /\ LET group == enriched_by_date[saveCursor]
           seen == IF script = "main"
                   THEN save_documents(conn, group.date, group.docs, now + 1, outcome, n)
                   ELSE save_documents_skip(conn, group.date, group.docs, now + 1, outcome, n)
       IN  /\ <<outcome, n>> \in SavePoints(script, group.date, group.docs)
           /\ conn' = seen
           /\ disk' = Durable(disk, seen, outcome)
           /\ saveLog' = Append(saveLog,
                                [date |-> group.date, docs |-> group.docs,
                                 fetched_at |-> now + 1, outcome |-> outcome,
                                 before |-> disk,
                                 unfinished |-> Running(task) \cup
                                             {i \in 1..Len(task) : task[i] = "pending"},
                                 uncollected |-> Positions \ taken])
           /\ inserted' = IF outcome = "ok" THEN inserted + Len(group.docs)
                          ELSE inserted
    /\ now' = now + 1
    /\ saveCursor' = saveCursor + 1
    /\ pc' = IF outcome = "ok" THEN "saving" ELSE "unwind"
    /\ UNCHANGED <<script, apiKey, dateCursor, all_documents, task, taken,
                   enriched_by_date, status, rc, history, fetchedZip,
                   listFailed,
                   listedOn, call, result, warned>>

\* the end of main(): conn.close(), which drops what was not committed, then
\* the status, the history row and the return value
Finish(wrote) ==
    /\ \/ pc = "saving" /\ saveCursor > Len(enriched_by_date)
       \/ pc = "unwind"
    /\ conn' = disk
    /\ status' = IF pc = "saving" /\ script = "main" THEN "success" ELSE status
    /\ rc' = IF pc = "saving" THEN Some(0) ELSE Some(1)
    /\ history' = WriteHistory(history, script, wrote, status',
                               Len(all_documents), inserted,
                               IF pc = "saving" THEN None ELSE Some("error"))
    /\ warned' = WarnsHistory(script, wrote)
    /\ pc' = "done"
    /\ UNCHANGED <<script, apiKey, dateCursor, all_documents, task, taken,
                   enriched_by_date, saveCursor, disk, now, inserted,
                   fetchedZip, listFailed, saveLog,
                   listedOn, call, result>>

Next ==
    \/ CheckKey
    \/ \E documents \in DocLists(Len(all_documents)) : FetchDocuments(documents)
    \/ \E wrote \in BOOLEAN : FetchDocumentsRaises(wrote)
    \/ Submit
    \/ StartTask
    \/ \E i \in 1..Len(task), zip \in ZipResponses : FinishTask(i, zip)
    \/ \E i \in 1..Len(task) : Collect(i)
    \/ \E outcome \in SaveOutcomes, n \in 0..(MAX_WORKERS + Extra) : SaveDocuments(outcome, n)
    \/ \E wrote \in BOOLEAN : Finish(wrote)

Spec == Init /\ [][Next]_vars


-----------------------------------------------------------------------------
(* Properties *)

Count(seq, v) == Cardinality({k \in 1..Len(seq) : seq[k] = v})

Dates == 1..NumDates

\* the documents emitted under a date, in emission order
GroupDocs(d) ==
    IF \E g \in 1..Len(enriched_by_date) : enriched_by_date[g].date = d
    THEN enriched_by_date[CHOOSE g \in 1..Len(enriched_by_date) :
                              enriched_by_date[g].date = d].docs
    ELSE <<>>

\* the fan-in loop is over
FanInOver == pc \in {"saving", "unwind", "done"} /\ task # <<>>

Committed == {j \in 1..Len(saveLog) : saveLog[j].outcome = "ok"}

\* the store as it was when the call after call j started
DiskAfter(j) == IF j < Len(saveLog) THEN saveLog[j + 1].before ELSE disk

\* the committed row writes, as <<call, position in the batch>>
Writes == UNION {{<<j, k>> : k \in 1..Len(saveLog[j].docs)} : j \in Committed}

WrittenId(w) == DocId(saveLog[w[1]].docs[w[2]])

\* the committed writes of a document id
WritesOf(id) == {w \in Writes : WrittenId(w) = id}

PersistedIds == {WrittenId(w) : w \in Writes} \ {None}

Before(v, w) == v[1] < w[1] \/ (v[1] = w[1] /\ v[2] <= w[2])

LastWrite(id) == CHOOSE w \in WritesOf(id) : \A v \in WritesOf(id) : Before(v, w)

FirstWrite(id) == CHOOSE w \in WritesOf(id) : \A v \in WritesOf(id) : Before(w, v)

RowsOf(table, id) == {i \in 1..Len(table) : table[i].doc_id = id}

AllNull(doc) == \A k \in MetricKeys \cup DerivedKeys : Get(doc, k) = None

\* C1: the fan-in emits every input document exactly once, in the group of
\* the date under which it was listed, whatever the completion order: the
\* groups have distinct dates, a group under date d holds each document as
\* often as it was listed under d and already yielded, and once the loop is
\* over every document has been yielded.
C1_EmittedOnceUnderItsDate ==
    /\ \A g, h \in 1..Len(enriched_by_date) :
          enriched_by_date[g].date = enriched_by_date[h].date => g = h
    /\ \A g \in 1..Len(enriched_by_date) : enriched_by_date[g].date \in Dates
    /\ \A d \in Dates : \A i \in Positions :
          Count(GroupDocs(d), all_documents[i]) =
              Cardinality({j \in taken : listedOn[j] = d
                                         /\ all_documents[j] = all_documents[i]})
    /\ \A d \in Dates :
          Len(GroupDocs(d)) = Cardinality({j \in taken : listedOn[j] = d})
    /\ FanInOver => taken = Positions

\* C1 witness: two documents listed under different dates were emitted in the
\* reverse of their submission order, and the fan-in is over
C1_Witness ==
    /\ pc = "saving"
    /\ Len(enriched_by_date) = 2
    /\ enriched_by_date[1].date = 2
    /\ enriched_by_date[2].date = 1
    /\ listedOn = <<1, 2>>

\* C2: a document whose enrich_document raised is still emitted, under its
\* date and with every metric and ratio null; the only thing that ends the
\* run after the fan-in began is a save_documents call that raised; and a run
\* that returns 0 has persisted every document that has an id.
C2_EnrichFailureIsolated ==
    /\ \A i \in taken :
          task[i] = "raised" =>
              /\ Count(GroupDocs(listedOn[i]), all_documents[i]) >= 1
              /\ AllNull(all_documents[i])
              /\ \A k \in MetricKeys : Row(listedOn[i], all_documents[i], 0).metric[k] = None
              /\ \A k \in DerivedKeys : Row(listedOn[i], all_documents[i], 0).derived[k] = None
    /\ pc = "unwind" => saveLog # <<>> /\ saveLog[Len(saveLog)].outcome # "ok"
    /\ (pc = "done" /\ task # <<>> /\ Committed = 1..Len(saveLog)) => rc = Some(0)
    /\ (pc = "done" /\ rc = Some(0)) =>
          \A i \in Positions :
              DocId(all_documents[i]) # None =>
                  IF script = "main"
                  THEN RowsOf(disk.table_docment_all, DocId(all_documents[i])) # {}
                  ELSE RowsOf(disk.edinet_documents, DocId(all_documents[i])) # {}

\* C2 witness: a run returned 0 in which one enrichment raised and another
\* one resolved metrics from its archive
C2_Witness ==
    /\ pc = "done"
    /\ rc = Some(0)
    /\ \E i, j \in Positions :
          /\ task[i] = "raised"
          /\ task[j] = "done"
          /\ ~AllNull(all_documents[j])

\* C3: after any sequence of save_documents calls the store holds exactly
\* one row for every document id that was persisted (one row in
\* table_docment_all and at most one in table_docment_serect, one row in
\* edinet_documents for the variant script).
C3_OneRowPerDocId ==
    \A id \in PersistedIds :
        IF script = "main"
        THEN /\ Cardinality(RowsOf(disk.table_docment_all, id)) = 1
             /\ Cardinality(RowsOf(disk.table_docment_serect, id)) <= 1
        ELSE Cardinality(RowsOf(disk.edinet_documents, id)) = 1

\* C3 witness: a document id was written by two committed calls (overlapping
\* batches) or twice by one
C3_Witness ==
    /\ script = "main"
    /\ \E id \in PersistedIds : Cardinality(WritesOf(id)) >= 2


\* the row the latest committed write of a document id carried
LatestRow(id) ==
    LET w == LastWrite(id)
    IN  Row(saveLog[w[1]].date, saveLog[w[1]].docs[w[2]], saveLog[w[1]].fetched_at)

LatestRowSkip(id) ==
    LET w == LastWrite(id)
    IN  RowSkip(saveLog[w[1]].date, saveLog[w[1]].docs[w[2]], saveLog[w[1]].fetched_at)

\* the row the first committed write of a document id carried
FirstRowSkip(id) ==
    LET w == FirstWrite(id)
    IN  RowSkip(saveLog[w[1]].date, saveLog[w[1]].docs[w[2]], saveLog[w[1]].fetched_at)

HasRow(table, row) == \E i \in 1..Len(table) : table[i] = row

\* C6: a save_documents call that raised left the store as it was before
\* the call, in every table; a call that returned left every row of its
\* batch committed (for a document id written twice in the batch, the later
\* row); and nothing uncommitted is left once the run has ended.
C6_AllOrNothing ==
    /\ \A j \in 1..Len(saveLog) :
          saveLog[j].outcome # "ok" => DiskAfter(j) = saveLog[j].before
    /\ script = "main" =>
          \A j \in Committed : \A k \in 1..Len(saveLog[j].docs) :
              LET e == saveLog[j]
                  row == Row(e.date, e.docs[k], e.fetched_at)
                  later == {m \in (k + 1)..Len(e.docs) :
                               row.doc_id # None /\ DocId(e.docs[m]) = row.doc_id}
              IN  later = {} =>
                      /\ HasRow(DiskAfter(j).table_docment_all, row)
                      /\ TruthyChars(row.sec_code) =>
                            HasRow(DiskAfter(j).table_docment_serect, row)
    /\ pc = "done" => conn = disk

\* C6 witness: after a committed call, a second call wrote table_docment_all
\* and a row of table_docment_serect, then raised, and the run has ended
C6_Witness ==
    /\ script = "main"
    /\ pc = "done"
    /\ Len(saveLog) = 2
    /\ saveLog[1].outcome = "ok"
    /\ saveLog[2].outcome = "select"
    /\ saveLog[2].docs # <<>>
    /\ disk.table_docment_all # <<>>

XbrlFlag(doc) == OrStr(Get(doc, "xbrlFlag"), Get(doc, "XBRLFlag"))

\* C7: fetch_document_zip is called only for documents whose xbrlFlag is
\* "1"; a document not so flagged never makes enrich_document raise and is
\* returned, and emitted, with every metric key and every ratio key present
\* and null.
C7_FetchOnlyFlagged ==
    /\ \A i \in fetchedZip : XbrlFlag(all_documents[i]) = Some("1")
    /\ \A i \in Positions :
          XbrlFlag(all_documents[i]) # Some("1") =>
              /\ task # <<>> => task[i] # "raised"
              /\ (task # <<>> /\ task[i] = "done") =>
                    /\ MetricKeys \cup DerivedKeys \subseteq DOMAIN all_documents[i]
                    /\ AllNull(all_documents[i])
                    /\ i \in taken =>
                          Count(GroupDocs(listedOn[i]), all_documents[i]) >= 1

\* C7 witness: a document with xbrlFlag "0" was emitted while the archive of
\* a flagged document of the same batch was fetched and gave metrics
C7_Witness ==
    \E i, j \in taken :
        /\ XbrlFlag(all_documents[i]) = Some("0")
        /\ task[i] = "done"
        /\ j \in fetchedZip
        /\ ~AllNull(all_documents[j])

Stored(doc) ==
    IF script = "main" THEN RowsOf(disk.table_docment_all, DocId(doc)) # {}
    ELSE RowsOf(disk.edinet_documents, DocId(doc)) # {}

C9_InFlightBounded == Cardinality(Running(task)) <= MAX_WORKERS

\* C9 witness: MAX_WORKERS enrichments are in flight and a document is
\* still queued
C9_Witness ==
    /\ Cardinality(Running(task)) = MAX_WORKERS
    /\ \E i \in 1..Len(task) : task[i] = "pending"

\* C10: when a save_documents call starts, no enrichment is queued or in
\* flight and every future has been collected; the calls go through the
\* date groups one after another, each group once; and uncommitted writes
\* exist only while the one call that raised is being unwound.
C10_SaveAfterCollect ==
    /\ \A j \in 1..Len(saveLog) :
          /\ saveLog[j].unfinished = {}
          /\ saveLog[j].uncollected = {}
          /\ saveLog[j].date = enriched_by_date[j].date
          /\ saveLog[j].docs = enriched_by_date[j].docs
          /\ saveLog[j].fetched_at = j
    /\ saveCursor = Len(saveLog) + 1
    /\ conn # disk => pc = "unwind"
    /\ pc = "fanin" => saveLog = <<>>

\* C10 witness: two date groups were written, one after the other
C10_Witness ==
    /\ Len(saveLog) = 2
    /\ Committed = {1, 2}
    /\ Len(saveLog[1].docs) + Len(saveLog[2].docs) = Len(all_documents)


-----------------------------------------------------------------------------
(* A run whose list fetches and store writes succeed, under fair scheduling *)

\* a run started with the credential set
InitLive == Init /\ apiKey

\* the steps of main() other than the store write, when fetch_documents does
\* not raise; enrich_document still succeeds or raises for each document
NextLiveMain ==
    \/ CheckKey
    \/ \E documents \in DocLists(Len(all_documents)) : FetchDocuments(documents)
    \/ Submit
    \/ StartTask
    \/ \E i \in 1..Len(task), zip \in ZipResponses : FinishTask(i, zip)
    \/ \E i \in 1..Len(task) : Collect(i)
    \/ \E wrote \in BOOLEAN : Finish(wrote)

\* save_documents returning normally
NextLiveSave == SaveDocuments("ok", 0)

NextLive == NextLiveMain \/ NextLiveSave

\* the save loop stands at a date group: exactly when NextLiveSave can be taken
SaveCanRun == pc = "saving" /\ saveCursor <= Len(enriched_by_date)

\* main() runs its statements one after the other, the executor runs every
\* queued call on a worker thread, and urlopen returns or raises within its
\* timeout: a step that can be taken is taken. The condition on the store
\* write is weak fairness of NextLiveSave, with its enabling condition
\* written out as SaveCanRun.
SpecLive ==
    /\ InitLive
    /\ [][NextLive]_vars
    /\ WF_vars(NextLiveMain)
    /\ ([]<>(~SaveCanRun) \/ []<><<NextLiveSave>>_vars)

\* the run is over with return value 0, every enrichment has run and has been
\* collected, and every date group has been written and committed
RunComplete ==
    /\ pc = "done"
    /\ rc = Some(0)
    /\ Len(task) = Len(all_documents)
    /\ Finished(task) = Positions
    /\ taken = Positions
    /\ Len(saveLog) = Len(enriched_by_date)
    /\ \A j \in 1..Len(saveLog) : saveLog[j].outcome = "ok"
    /\ \A d \in Dates :
          Len(GroupDocs(d)) = Cardinality({i \in Positions : listedOn[i] = d})

\* C11: whatever enrichments fail, the run eventually completes: every
\* document is processed and collected, and every date group is written
C11_RunCompletes == <>RunComplete

C11_Witness ==
    /\ RunComplete
    /\ \E i, k \in Positions : task[i] = "raised" /\ task[k] = "done" /\ i < k
    /\ Len(saveLog) >= 1


-----------------------------------------------------------------------------
(* The store against the completion order *)

\* the documents listed under date d, in submission order
DocsOn(d) == SelectSeq(all_documents, LAMBDA doc : doc["_fetched_date"] = d)

\* the store of a run over the same documents whose enrichments complete in
\* submission order: the date groups are then written in date order, each
\* with its documents in listing order
RECURSIVE SavedInOrder(_)
SavedInOrder(d) ==
    IF d = 0 THEN EmptyDb
    ELSE IF DocsOn(d) = <<>> THEN SavedInOrder(d - 1)
    ELSE save_documents(SavedInOrder(d - 1), d, DocsOn(d), 0, "ok", 0)

\* the rows of a table by document id, with listing date, metric values and
\* ratio values
Content(table) ==
    {[doc_id |-> table[i].doc_id, fetched_date |-> table[i].fetched_date,
      metric |-> table[i].metric, derived |-> table[i].derived] :
        i \in 1..Len(table)}

\* C12: the store content after a run of edinet_fetch_financials.py that
\* returned 0 is the same for every completion order of the enrichments:
\* it is the content that completion in submission order gives.
C12_Original ==
    (pc = "done" /\ rc = Some(0) /\ script = "main") =>
        /\ Content(disk.table_docment_all) =
               Content(SavedInOrder(NumDates).table_docment_all)
        /\ Content(disk.table_docment_serect) =
               Content(SavedInOrder(NumDates).table_docment_serect)


-----------------------------------------------------------------------------
(* The credential *)

\* C18: a run started without EDINET_API_KEY ends at startup with return
\* value 1: no document list is fetched, no enrichment is submitted, no
\* archive is fetched, and nothing is written to the store, the history
\* table included.
C18_NoWorkWithoutKey ==
    ~apiKey =>
        /\ pc \in {"start", "done"}
        /\ pc = "done" => rc = Some(1)
        /\ dateCursor = 1
        /\ all_documents = <<>>
        /\ listFailed = {}
        /\ task = <<>>
        /\ fetchedZip = {}
        /\ saveLog = <<>>
        /\ conn = EmptyDb
        /\ disk = EmptyDb
        /\ history = <<>>

\* C18 witness: a run without the credential has ended
C18_Witness == ~apiKey /\ pc = "done" /\ rc = Some(1)


-----------------------------------------------------------------------------
(* The emitted records *)

\* C19: every record in enriched_by_date carries every canonical metric key,
\* whether its enrichment parsed a filing, passed the document through or
\* raised.
C19_Original ==
    \A g \in 1..Len(enriched_by_date) :
        \A k \in 1..Len(enriched_by_date[g].docs) :
            MetricKeys \subseteq DOMAIN enriched_by_date[g].docs[k]


-----------------------------------------------------------------------------
(* The XBRL payload: parse_contexts and collect_numeric_facts *)

\* An element is [tag, depth, attrib, text]. A payload is the sequence of
\* the elements below its root in the order root.iter() visits them
\* (document order), each with its depth below the root; the root itself is
\* the xbrl or html element, which carries none of the attributes read
\* here. A tag is the sequence of the pieces of ET's tag text, "{", the
\* namespace, "}" and the name; attrib is the dict of the attributes; text
\* is None or the text, a sequence of pieces: the one piece of a date for
\* the period elements, the pieces of the QName for a dimension member, the
\* characters for a number.
Element(tag, depth, attrib, text) ==
    [tag |-> tag, depth |-> depth, attrib |-> attrib, text |-> text]

\* the one piece of a text that holds one piece at most, "" for the empty text
TextOf(pieces) == IF pieces = <<>> THEN "" ELSE pieces[1]

\* local_name: what follows the first "}" of the tag, or the tag
local_name(tag) ==
    LET braces == {i \in 1..Len(tag) : tag[i] = "}"}
    IN  TextOf(IF braces = {} THEN tag ELSE SubSeq(tag, Min(braces) + 1, Len(tag)))

\* ctx.iter(): the element at i and its descendants
iter(doc, i) ==
    {i} \cup {j \in (i + 1)..Len(doc) :
                 \A k \in (i + 1)..j : doc[k].depth > doc[i].depth}

\* `"Consolidated" in member`: the text holds the piece "Consolidated"; no
\* other piece of the member texts contains that word or a part of it
Contains(member, word) == \E k \in 1..Len(member) : member[k] = word

FirstPeriodEnd(doc, i) ==
    LET ends == {j \in iter(doc, i) : local_name(doc[j].tag) \in {"instant", "endDate"}}
    IN  IF ends = {} THEN None ELSE doc[Min(ends)].text

\* period_end after the loop over ctx.iter(): the text of the last instant
\* or endDate element, None when there is none
PeriodEndOf(doc, i) ==
    LET ends == {j \in iter(doc, i) : local_name(doc[j].tag) \in {"instant", "endDate"}}
    IN  IF ends = {} THEN None ELSE doc[MaxOf(ends)].text

\* consolidated after the loop over ctx.iter()
ConsolidatedOf(doc, i) ==
    \E j \in iter(doc, i) :
        /\ local_name(doc[j].tag) = "explicitMember"
        /\ Contains(IF doc[j].text = None THEN <<>> ELSE Val(doc[j].text),
                    "Consolidated")

\* the context elements parse_contexts does not skip
IndexedContexts(doc) ==
    {i \in 1..Len(doc) : /\ local_name(doc[i].tag) = "context"
                         /\ TruthyStr(Get(doc[i].attrib, "id"))}

\* parse_contexts: contexts[ctx_id] is assigned in document order, so the
\* last context of an id is the one the dict keeps
parse_contexts(doc) ==
    LET ids == {Val(Get(doc[i].attrib, "id")) : i \in IndexedContexts(doc)}
        last(id) == MaxOf({i \in IndexedContexts(doc) : Val(Get(doc[i].attrib, "id")) = id})
    IN  [id \in ids |-> [period_end |-> PeriodEndOf(doc, last(id)),
                         consolidated |-> ConsolidatedOf(doc, last(id))]]

\* name.split(":")[-1]: what follows the last colon
LastPart(name) ==
    LET colons == {k \in 1..Len(name) : name[k] = ":"}
    IN  TextOf(IF colons = {} THEN name ELSE SubSeq(name, MaxOf(colons) + 1, Len(name)))

HasShapeAnyRef(elem) ==
    \/ local_name(elem.tag) = "nonFraction" /\ "name" \in DOMAIN elem.attrib
    \/ "contextRef" \in DOMAIN elem.attrib

\* the two branches of collect_numeric_facts that do not `continue`: a
\* nonFraction element with a name attribute, or a truthy contextRef
HasShape(elem) ==
    \/ local_name(elem.tag) = "nonFraction" /\ "name" \in DOMAIN elem.attrib
    \/ TruthyStr(Get(elem.attrib, "contextRef"))

\* the fact's name in the branch taken
FactName(elem) ==
    IF local_name(elem.tag) = "nonFraction" /\ "name" \in DOMAIN elem.attrib
    THEN LastPart(Val(Get(elem.attrib, "name")))
    ELSE local_name(elem.tag)

\* what int(scale) raises: ValueError unless the text is digits with an
\* optional sign, blanks around them
IntTextRaises(text) ==
    LET u == Unsigned(text)
    IN  IF u # <<>> /\ \A k \in 1..Len(u) : u[k] \in Digits
        THEN "none" ELSE "ValueError"

\* int(scale) when it returns
IntText(text) ==
    IF Head(strip(text)) = "-" THEN -DecimalValue(Unsigned(text))
    ELSE DecimalValue(Unsigned(text))

\* the greatest n for which float(10 ** n) is a float
MaxFloatPow10 == 308

\* what `value *= 10 ** int(scale)` raises: int() may raise ValueError, and
\* the product raises OverflowError when 10 ** n is too large for a float
ScaleRaises(scale) ==
    IF IntTextRaises(scale) # "none" THEN IntTextRaises(scale)
    ELSE IF IntText(scale) > MaxFloatPow10 THEN "OverflowError"
    ELSE "none"

\* `except ValueError` around the scaling
CaughtByScale(exc) == exc = "ValueError"

\* the value after `if scale: try: value *= 10 ** int(scale)`; the product
\* value * 10 ** n is exact for the scales of the model that do not raise
ScaledValue(elem) ==
    LET value == Val(parse_number(elem.text))
        scale == Get(elem.attrib, "scale")
        n == IntText(Val(scale))
    IN  IF scale = None \/ Val(scale) = <<>> THEN value
        ELSE IF ScaleRaises(Val(scale)) # "none" THEN value
        ELSE IF n >= 0 THEN [num |-> value.num * Pow10(n), den |-> value.den]
        ELSE [num |-> value.num, den |-> value.den * Pow10(-n)]

\* the elements collect_numeric_facts reaches its scaling step with
Valued(doc) ==
    {i \in 1..Len(doc) : HasShape(doc[i]) /\ parse_number(doc[i].text) # None}

\* collect_numeric_facts raises: the scaling of an element raises what the
\* except clause does not catch
CollectRaises(doc) ==
    \E i \in Valued(doc) :
        LET scale == Get(doc[i].attrib, "scale")
        IN  /\ scale # None
            /\ Val(scale) # <<>>
            /\ ScaleRaises(Val(scale)) # "none"
            /\ ~CaughtByScale(ScaleRaises(Val(scale)))

\* the dict appended for an element
NumericFact(elem, contexts) ==
    LET context_ref == Get(elem.attrib, "contextRef")
        key == IF context_ref = None THEN "" ELSE Val(context_ref)
    IN  [name |-> FactName(elem),
         value |-> ScaledValue(elem),
         contextRef |-> context_ref,
         unitRef |-> Get(elem.attrib, "unitRef"),
         decimals |-> Get(elem.attrib, "decimals"),
         period_end |-> IF key \in DOMAIN contexts THEN contexts[key].period_end
                        ELSE None,
         consolidated |-> IF key \in DOMAIN contexts THEN contexts[key].consolidated
                          ELSE FALSE]

\* the loop of collect_numeric_facts from element i on
RECURSIVE CollectFrom(_, _, _)
CollectFrom(doc, contexts, i) ==
    IF i > Len(doc) THEN <<>>
    ELSE (IF i \in Valued(doc) THEN <<NumericFact(doc[i], contexts)>> ELSE <<>>)
         \o CollectFrom(doc, contexts, i + 1)

\* collect_numeric_facts when it returns
collect_numeric_facts(doc) == CollectFrom(doc, parse_contexts(doc), 1)

-----------------------------------------------------------------------------
(* The functions of the scripts, called on their own *)

\* facts as collect_numeric_facts can return them: the two netsales facts of
\* contexts c1 and c2, an older fact under another alias, a fact without
\* period end, an upper-case tag, employee counts that are fractional, nan or
\* infinite, and facts of other metrics or of none
FactPool ==
    {Fact("NetSales", 100, Some(20240331), FALSE),
     Fact("NetSales", 120, Some(20240331), TRUE),
     Fact("Revenue", 50, Some(20230331), TRUE),
     Fact("NetSales", 70, None, TRUE),
     Fact("NETSALES", 130, Some(20240331), TRUE),
     [Fact("NumberOfEmployees", 0, Some(20240331), FALSE)
          EXCEPT !.value = [num |-> 15, den |-> 2]],
     [Fact("NumberOfEmployees", 0, Some(20240331), TRUE)
          EXCEPT !.value = [num |-> -15, den |-> 2]],
     [Fact("NumberOfEmployees", 0, Some(20230331), TRUE) EXCEPT !.value = NaN],
     [Fact("NumberOfEmployees", 0, None, FALSE) EXCEPT !.value = Inf],
     Fact("Assets", 400, Some(20240331), TRUE),
     Fact("Goodwill", 9, Some(20240331), TRUE)}

\* the sequences of up to n facts of the pool
FactSeqs(n) == SeqsUpTo(FactPool, n)

\* the metrics whose alias lists select_metric_value is called with
UnitKeys == {"sales_amount", "employee_count", "eps"}

SelectCalls(n) ==
    {[fn |-> "select_metric_value", facts |-> f, key |-> k] :
        f \in FactSeqs(n), k \in UnitKeys}

ExtractCalls(n) ==
    {[fn |-> "extract_metrics_from_xbrl", facts |-> f] : f \in FactSeqs(n)}

\* the metrics compute_derived reads, each null, zero, positive or negative
DerivedInputs == {"sales_amount", "operating_income", "net_income",
                  "total_assets", "total_equity", "cash_and_equivalents"}

DerivedValues == {None, Some(Num(0)), Some(Num(3)), Some([num |-> -1, den |-> 2])}

DerivedCalls ==
    {[fn |-> "compute_derived", metrics |-> mt] :
        mt \in [DerivedInputs -> DerivedValues]}

\* the characters of the texts: digits, separators, parentheses, sign,
\* blank, and a letter
TextChars == {"1", "5", ",", ".", "(", ")", "-", " ", "x"}

\* every text up to n characters, the two texts "(1,234)" and
\* "1,234.5", and no text at all
NumberTexts(n) ==
    {None}
    \cup {Some(t) : t \in SeqsUpTo(TextChars, n)}
    \cup {Some(<<"(", "1", ",", "2", "3", "4", ")">>),
          Some(<<"1", ",", "2", "3", "4", ".", "5">>)}

ParseCalls(n) == {[fn |-> "parse_number", text |-> t] : t \in NumberTexts(n)}

\* entries of an archive: filings of several sizes, a larger manifest whose
\* root is neither xbrl nor html, a larger page that does not parse, and
\* schema files, one of them with an xbrl root
EntryPool ==
    {Entry(".xbrl", 3, TRUE, "xbrl", <<>>),
     Entry(".xbrl", 1, TRUE, "xbrl", <<>>),
     Entry(".html", 3, TRUE, "html", <<>>),
     Entry(".html", 2, TRUE, "html", <<>>),
     Entry(".xml", 5, TRUE, "manifest", <<>>),
     Entry(".xhtml", 4, FALSE, "none", <<>>),
     Entry(".xsd", 9, TRUE, "schema", <<>>),
     Entry(".xsd", 6, TRUE, "xbrl", <<>>)}

\* the archives of up to n entries
ArchiveCalls(n) ==
    {[fn |-> "extract_xbrl_bytes", entries |-> e] :
        e \in SeqsUpTo(EntryPool, n)}

\* the facts of FactPool that bear on sales_amount, and one that does not
SalesPool ==
    {Fact("NetSales", 100, Some(20240331), FALSE),
     Fact("NetSales", 120, Some(20240331), TRUE),
     Fact("NETSALES", 130, Some(20240331), TRUE),
     Fact("Revenue", 50, Some(20230331), TRUE),
     Fact("NetSales", 70, None, TRUE),
     Fact("Goodwill", 9, Some(20240331), TRUE)}

Reorderings(n) ==
    {p \in [1..n -> 1..n] : \A i, j \in 1..n : p[i] = p[j] => i = j}

Permuted(facts, p) == [i \in 1..Len(facts) |-> facts[p[i]]]

\* a sequence of up to n facts and a second traversal order of the same facts
ReorderCalls(n) ==
    UNION {{[fn |-> "select_metric_value twice", facts |-> f, perm |-> p,
             key |-> "sales_amount"] : p \in Reorderings(Len(f))} :
           f \in SeqsUpTo(SalesPool, n)}

\* a tag as ET gives it when the element has a namespace; a bare tag is <<name>>
QTag(ns, name) == <<"{", ns, "}", name>>

\* an element without attributes
NoAttrib == [a \in {} |-> None]

\* a payload is well formed: its first element is a child of the root and
\* an element is at most one level below the element before it
WellFormed(doc) ==
    /\ doc # <<>> => doc[1].depth = 1
    /\ \A k \in 1..(Len(doc) - 1) : doc[k + 1].depth <= doc[k].depth + 1

\* contexts with an id, with the id of another, without id and with an
\* empty id, and period elements inside a context or beside it
PeriodPool ==
    {Element(QTag("xbrli", "context"), 1, [id |-> Some("c1")], None),
     Element(<<"context">>, 1, [id |-> Some("c2")], None),
     Element(<<"context">>, 1, NoAttrib, None),
     Element(<<"context">>, 1, [id |-> Some("")], None),
     Element(QTag("xbrli", "instant"), 2, NoAttrib, Some(<<"2024-03-31">>)),
     Element(<<"endDate">>, 2, NoAttrib, Some(<<"2023-03-31">>)),
     Element(<<"endDate">>, 2, NoAttrib, None),
     Element(<<"startDate">>, 2, NoAttrib, Some(<<"2025-04-01">>)),
     Element(<<"instant">>, 1, NoAttrib, Some(<<"2022-03-31">>))}

\* the dimension members of a context: the consolidated and the
\* non-consolidated scope, a member of another axis, and an empty element
MemberPool ==
    {Element(<<"context">>, 1, [id |-> Some("c1")], None),
     Element(<<"context">>, 1, [id |-> Some("c2")], None),
     Element(QTag("xbrldi", "explicitMember"), 2, NoAttrib,
             Some(<<"jppfs_cor:", "Consolidated", "Member">>)),
     Element(<<"explicitMember">>, 2, NoAttrib,
             Some(<<"jppfs_cor:", "Non", "Consolidated", "Member">>)),
     Element(<<"explicitMember">>, 2, NoAttrib,
             Some(<<"jpcrp_cor:", "ReportableSegments", "Member">>)),
     Element(<<"explicitMember">>, 2, NoAttrib, None),
     Element(<<"instant">>, 2, NoAttrib, Some(<<"2024-03-31">>))}

\* a context as the filings write it, its members and its period two and
\* three levels down, and a context nested in another
DeepDocs ==
    {<<Element(<<"context">>, 1, [id |-> Some("c1")], None),
       Element(<<"entity">>, 2, NoAttrib, None),
       Element(<<"segment">>, 3, NoAttrib, None),
       Element(<<"explicitMember">>, 4, NoAttrib,
               Some(<<"jppfs_cor:", "Non", "Consolidated", "Member">>)),
       Element(<<"period">>, 2, NoAttrib, None),
       Element(<<"startDate">>, 3, NoAttrib, Some(<<"2023-04-01">>)),
       Element(<<"endDate">>, 3, NoAttrib, Some(<<"2024-03-31">>))>>,
     <<Element(<<"context">>, 1, [id |-> Some("c1")], None),
       Element(<<"instant">>, 2, NoAttrib, Some(<<"2024-03-31">>)),
       Element(<<"context">>, 2, [id |-> Some("c2")], None),
       Element(<<"instant">>, 3, NoAttrib, Some(<<"2023-03-31">>)),
       Element(<<"explicitMember">>, 3, NoAttrib,
               Some(<<"jppfs_cor:", "Consolidated", "Member">>))>>}

\* the well-formed payloads of up to n elements of either pool, and
\* the deep ones
ContextCalls(n) ==
    {[fn |-> "parse_contexts", doc |-> d] :
        d \in {w \in SeqsUpTo(PeriodPool, n)
                     \cup SeqsUpTo(MemberPool, n) : WellFormed(w)}
              \cup DeepDocs}

\* the contexts of the payloads whose facts are collected: c1 is an instant
\* with a consolidated member, c2 a duration without member
FactContexts ==
    <<Element(<<"context">>, 1, [id |-> Some("c1")], None),
      Element(<<"instant">>, 2, NoAttrib, Some(<<"2024-03-31">>)),
      Element(<<"explicitMember">>, 2, NoAttrib,
              Some(<<"jppfs_cor:", "Consolidated", "Member">>)),
      Element(<<"context">>, 1, [id |-> Some("c2")], None),
      Element(<<"endDate">>, 2, NoAttrib, Some(<<"2023-03-31">>))>>

\* an element with a contextRef and a number text, under a scale attribute
Scaling(scale) ==
    Element(<<"Assets">>, 1,
            [contextRef |-> Some("c1"), scale |-> Some(scale)],
            Some(<<"1", "5">>))

\* fact elements: inline nonFraction elements with a qualified name, a bare
\* name, a name ending in a colon, no name, no contextRef; plain elements
\* with a contextRef that names a context, names none or is empty, with a
\* text that is a number, is none or is missing; an element of neither
\* shape; and scale attributes that are integers, a fraction, a word, empty
\* and an integer beyond the floats
FactElements ==
    {Element(QTag("ix", "nonFraction"), 1,
             [name |-> Some(<<"jppfs_cor", ":", "NetSales">>),
              contextRef |-> Some("c1"), unitRef |-> Some("JPY"),
              decimals |-> Some("-6")],
             Some(<<"1", ",", "2", "0", "0">>)),
     Element(<<"nonFraction">>, 1,
             [name |-> Some(<<"a", ":", "b", ":", "Revenue">>),
              contextRef |-> Some("c2")],
             Some(<<"(", "5", ")">>)),
     Element(<<"nonFraction">>, 1,
             [name |-> Some(<<"NumberOfEmployees">>)], Some(<<"7">>)),
     Element(<<"nonFraction">>, 1,
             [name |-> Some(<<"jppfs_cor", ":">>), contextRef |-> Some("c1")],
             Some(<<"3">>)),
     Element(<<"nonFraction">>, 1, [contextRef |-> Some("c1")], Some(<<"9">>)),
     Element(<<"nonFraction">>, 1, NoAttrib, Some(<<"9">>)),
     Element(QTag("jppfs_cor", "Assets"), 1, [contextRef |-> Some("c1")],
             Some(<<"4", "0", "0">>)),
     Element(<<"Assets">>, 1, [contextRef |-> Some("c9")], Some(<<"5">>)),
     Element(<<"Assets">>, 1, [contextRef |-> Some("")], Some(<<"5">>)),
     Element(<<"Assets">>, 1, [contextRef |-> Some("c1")], Some(<<"x">>)),
     Element(<<"Assets">>, 1, [contextRef |-> Some("c1")], None),
     Element(<<"Note">>, 1, NoAttrib, Some(<<"5">>)),
     Scaling(<<"3">>), Scaling(<<"-", "1">>), Scaling(<<"1", ".", "5">>),
     Scaling(<<"x">>), Scaling(<<>>), Scaling(<<"4", "0", "0">>)}

\* the contexts followed by up to n fact elements
CollectCalls(n) ==
    {[fn |-> "collect_numeric_facts", doc |-> FactContexts \o d] :
        d \in SeqsUpTo(FactElements, n)}

InitUnit ==
    /\ script = "main"
    /\ apiKey = TRUE
    /\ pc = "start"
    /\ dateCursor = 1
    /\ all_documents = <<>>
    /\ task = <<>>
    /\ taken = {}
    /\ enriched_by_date = <<>>
    /\ saveCursor = 1
    /\ conn = EmptyDb
    /\ disk = EmptyDb
    /\ now = 0
    /\ inserted = 0
    /\ status = "failed"
    /\ rc = None
    /\ history = <<>>
    /\ fetchedZip = {}
    /\ listFailed = {}
    /\ saveLog = <<>>
    /\ listedOn = <<>>
    /\ result = Pending
    /\ warned = FALSE
    /\ \/ call \in SelectCalls(MaxFacts)
       \/ call \in ExtractCalls(MaxFacts)
       \/ call \in DerivedCalls
       \/ call \in ParseCalls(MaxText)
       \/ call \in ArchiveCalls(MaxEntries)
       \/ call \in ReorderCalls(MaxFacts)
       \/ call \in ContextCalls(MaxElems)
       \/ call \in CollectCalls(MaxFactElems)

\* a call touches nothing of the run
MainUnchanged ==
    UNCHANGED <<script, apiKey, pc, dateCursor, all_documents, task, taken,
                enriched_by_date, saveCursor, conn, disk, now, inserted,
                status, rc, history, fetchedZip, listFailed, saveLog,
                listedOn, call, warned>>

CallSelectMetricValue ==
    /\ call.fn = "select_metric_value"
    /\ result = Pending
    /\ result' = Returned(select_metric_value(call.facts, COMMON_METRICS[call.key]))
    /\ MainUnchanged

\* extract_metrics_from_xbrl on a payload whose facts are call.facts
CallExtractMetrics ==
    /\ call.fn = "extract_metrics_from_xbrl"
    /\ result = Pending
    /\ result' = IF ExtractRaises(call.facts) THEN Raised("OverflowError")
                 ELSE Returned(extract_metrics_from_xbrl(call.facts))
    /\ MainUnchanged

CallComputeDerived ==
    /\ call.fn = "compute_derived"
    /\ result = Pending
    /\ result' = IF ComputeDerivedRaises(call.metrics) THEN Raised("ZeroDivisionError")
                 ELSE Returned(compute_derived(call.metrics))
    /\ MainUnchanged

CallParseNumber ==
    /\ call.fn = "parse_number"
    /\ result = Pending
    /\ result' = IF ParseNumberRaises(call.text) THEN Raised("ValueError")
                 ELSE Returned(parse_number(call.text))
    /\ MainUnchanged

\* extract_xbrl_bytes on the bytes of an archive with entries call.entries
CallExtractXbrlBytes ==
    /\ call.fn = "extract_xbrl_bytes"
    /\ result = Pending
    /\ result' = Returned(extract_xbrl_bytes(call.entries))
    /\ MainUnchanged

\* select_metric_value on the facts and on the same facts in another order
CallSelectReordered ==
    /\ call.fn = "select_metric_value twice"
    /\ result = Pending
    /\ result' = Returned(<<select_metric_value(call.facts, COMMON_METRICS[call.key]),
                            select_metric_value(Permuted(call.facts, call.perm),
                                                COMMON_METRICS[call.key])>>)
    /\ MainUnchanged

\* parse_contexts on the root of a payload
CallParseContexts ==
    /\ call.fn = "parse_contexts"
    /\ result = Pending
    /\ result' = Returned(parse_contexts(call.doc))
    /\ MainUnchanged

\* collect_numeric_facts on the root of a payload
CallCollectNumericFacts ==
    /\ call.fn = "collect_numeric_facts"
    /\ result = Pending
    /\ result' = IF CollectRaises(call.doc) THEN Raised("OverflowError")
                 ELSE Returned(collect_numeric_facts(call.doc))
    /\ MainUnchanged

NextUnit ==
    \/ CallSelectMetricValue
    \/ CallExtractMetrics
    \/ CallComputeDerived
    \/ CallParseNumber
    \/ CallExtractXbrlBytes
    \/ CallSelectReordered
    \/ CallParseContexts
    \/ CallCollectNumericFacts

SpecUnit == InitUnit /\ [][NextUnit]_vars

-----------------------------------------------------------------------------
(* Properties of the functions *)

\* the fact's name is one of the aliases of the metric, whatever its case
Matches(fact, key) ==
    \E a \in 1..Len(COMMON_METRICS[key]) : lower(fact.name) = COMMON_METRICS[key][a]

MatchingFacts(facts, key) == {i \in 1..Len(facts) : Matches(facts[i], key)}

PeriodOf(fact) == IF fact.period_end = None THEN 0 ELSE Val(fact.period_end)

\* the (periodEnd, consolidated) pair of f is at least that of g
AtLeast(f, g) ==
    \/ PeriodOf(f) > PeriodOf(g)
    \/ PeriodOf(f) = PeriodOf(g) /\ (f.consolidated \/ ~g.consolidated)

\* C13: select_metric_value returns None when no fact matches the aliases,
\* and otherwise a matching fact whose (periodEnd, consolidated) pair is
\* at least that of every matching fact: the latest period end, and among
\* equal period ends the consolidated fact. With netsales 100 in c1
\* (2024-03-31, non-consolidated) and 120 in c2 (2024-03-31, consolidated),
\* in either order, the fact of value 120 is returned.
C13_GreatestPairWins ==
    (call.fn = "select_metric_value" /\ result # Pending) =>
        /\ result.kind = "returned"
        /\ LET M == MatchingFacts(call.facts, call.key)
           IN  IF M = {} THEN result.value = None
               ELSE /\ result.value # None
                    /\ \E i \in M : call.facts[i] = Val(result.value)
                    /\ \A j \in M : AtLeast(Val(result.value), call.facts[j])
        /\ (/\ call.key = "sales_amount"
            /\ call.facts \in
                 {<<Fact("NetSales", 100, Some(20240331), FALSE),
                    Fact("NetSales", 120, Some(20240331), TRUE)>>,
                  <<Fact("NetSales", 120, Some(20240331), TRUE),
                    Fact("NetSales", 100, Some(20240331), FALSE)>>})
           => Val(result.value).value = Num(120)

\* C13 witness: the netsales facts of c1 and c2 after an older revenue fact;
\* the third fact, of value 120, was returned
C13_Witness ==
    /\ call.fn = "select_metric_value"
    /\ call.key = "sales_amount"
    /\ call.facts = <<Fact("Revenue", 50, Some(20230331), TRUE),
                      Fact("NetSales", 100, Some(20240331), FALSE),
                      Fact("NetSales", 120, Some(20240331), TRUE)>>
    /\ result = Returned(Some(Fact("NetSales", 120, Some(20240331), TRUE)))


\* the value of the one fact that matches the key
TheMatch(facts, key) == facts[CHOOSE i \in MatchingFacts(facts, key) : TRUE].value

ExactlyOne(facts, key) == Cardinality(MatchingFacts(facts, key)) = 1

\* C14 as stated: a metric with no matching fact resolves to null and a
\* metric with exactly one matching fact resolves to that fact's value
\* unchanged, for every canonical key.
C14_Original ==
    (call.fn = "extract_metrics_from_xbrl" /\ result # Pending) =>
        /\ result.kind = "returned"
        /\ \A k \in MetricKeys :
              /\ MatchingFacts(call.facts, k) = {} => result.value[k] = None
              /\ ExactlyOne(call.facts, k) =>
                     result.value[k] = Some(TheMatch(call.facts, k))

\* r is the integer next to v on the side of zero
IsTruncationOf(r, v) ==
    /\ r.den = 1
    /\ v.num >= 0 => r.num * v.den <= v.num /\ v.num < (r.num + 1) * v.den
    /\ v.num < 0 => r.num * v.den >= v.num /\ v.num > (r.num - 1) * v.den

\* C14: a metric with no matching fact resolves to null; a metric other than
\* employee_count with exactly one matching fact resolves to that fact's
\* value unchanged; employee_count with exactly one matching fact resolves
\* to the value truncated toward zero, to null when the value is nan, and
\* when the value is infinite extract_metrics_from_xbrl raises; it raises
\* for nothing but an infinite employee count.
C14_OneMatchResolves ==
    (call.fn = "extract_metrics_from_xbrl" /\ result # Pending) =>
        /\ result.kind = "raised" =>
              \E i \in MatchingFacts(call.facts, "employee_count") :
                  IsInf(call.facts[i].value)
        /\ (/\ ExactlyOne(call.facts, "employee_count")
            /\ IsInf(TheMatch(call.facts, "employee_count")))
           => result.kind = "raised"
        /\ result.kind = "returned" =>
              \A k \in MetricKeys :
                  /\ MatchingFacts(call.facts, k) = {} => result.value[k] = None
                  /\ (ExactlyOne(call.facts, k) /\ k # "employee_count") =>
                         result.value[k] = Some(TheMatch(call.facts, k))
                  /\ (ExactlyOne(call.facts, k) /\ k = "employee_count") =>
                         IF IsNaN(TheMatch(call.facts, k))
                         THEN result.value[k] = None
                         ELSE /\ result.value[k] # None
                              /\ IsTruncationOf(Val(result.value[k]),
                                                TheMatch(call.facts, k))

\* C14 witness: one revenue fact and one employee count of -15/2; the sales
\* are the fact's value, the employee count is -7 and the assets are null
C14_Witness ==
    /\ call.fn = "extract_metrics_from_xbrl"
    /\ Len(call.facts) = 2
    /\ ExactlyOne(call.facts, "sales_amount")
    /\ ExactlyOne(call.facts, "employee_count")
    /\ result.kind = "returned"
    /\ result.value["sales_amount"] = Some(Num(50))
    /\ result.value["employee_count"] = Some(Num(-7))
    /\ result.value["total_assets"] = None


\* r is the quotient n / d of two finite numbers, d not zero
IsQuotient(r, n, d) ==
    /\ r.den > 0
    /\ r.num * d.num * n.den = n.num * d.den * r.den

\* r is what safeDivide gives for n and d
IsSafeDivide(r, n, d) ==
    IF n = None \/ d = None THEN r = None
    ELSE IF Val(d) = Num(0) THEN r = None
    ELSE r # None /\ IsQuotient(Val(r), Val(n), Val(d))

\* C15: compute_derived never raises and returns the five ratios:
\* operating_margin = safeDivide(operating_income, sales_amount), net_margin
\* = safeDivide(net_income, sales_amount), equity_ratio = safeDivide(
\* total_equity, total_assets), cash_ratio = safeDivide(cash_and_equivalents,
\* total_assets) and gross_margin = null, where safeDivide is null for a null
\* operand or a zero denominator and the quotient otherwise.
C15_DerivedRatios ==
    (call.fn = "compute_derived" /\ result # Pending) =>
        /\ result.kind = "returned"
        /\ DOMAIN result.value = DerivedKeys
        /\ result.value["gross_margin"] = None
        /\ IsSafeDivide(result.value["operating_margin"],
                        call.metrics["operating_income"], call.metrics["sales_amount"])
        /\ IsSafeDivide(result.value["net_margin"],
                        call.metrics["net_income"], call.metrics["sales_amount"])
        /\ IsSafeDivide(result.value["equity_ratio"],
                        call.metrics["total_equity"], call.metrics["total_assets"])
        /\ IsSafeDivide(result.value["cash_ratio"],
                        call.metrics["cash_and_equivalents"], call.metrics["total_assets"])

\* C15 witness: a negative operating income over positive sales, a null net
\* income, and equity over zero assets
C15_Witness ==
    /\ call.fn = "compute_derived"
    /\ call.metrics["sales_amount"] = Some(Num(3))
    /\ call.metrics["operating_income"] = Some([num |-> -1, den |-> 2])
    /\ call.metrics["net_income"] = None
    /\ call.metrics["total_assets"] = Some(Num(0))
    /\ call.metrics["total_equity"] = Some(Num(3))
    /\ result.kind = "returned"
    /\ result.value["operating_margin"] = Some([num |-> -1, den |-> 6])
    /\ result.value["net_margin"] = None
    /\ result.value["equity_ratio"] = None


NonBlank(text) == {i \in 1..Len(text) : text[i] # " "}

\* the text between its first and its last character that is not a blank
Trimmed(text) ==
    IF NonBlank(text) = {} THEN <<>>
    ELSE SubSeq(text, Min(NonBlank(text)), MaxOf(NonBlank(text)))

Wrapped(text) == text # <<>> /\ text[1] = "(" /\ text[Len(text)] = ")"

\* the trimmed text, without its enclosing parentheses if it has them, and
\* without commas
Bare(text) ==
    LET t == Trimmed(text)
        inner == IF Wrapped(t) THEN [i \in 1..(Len(t) - 2) |-> t[i + 1]] ELSE t
        kept(n) == Cardinality({i \in 1..n : inner[i] # ","})
    IN  [k \in 1..kept(Len(inner)) |->
            inner[CHOOSE i \in 1..Len(inner) : inner[i] # "," /\ kept(i) = k]]

SameNumber(a, b) == a.num * b.den = b.num * a.den

\* C16: parse_number raises for no input. It gives null for no text, for
\* empty and for blank text; otherwise it reads the trimmed text without
\* enclosing parentheses and without commas, gives null when that is not a
\* number, and the number otherwise, negated when the text was enclosed in
\* parentheses. "(1,234)" gives -1234 and "1,234.5" gives 1234.5.
C16_ParseNumber ==
    (call.fn = "parse_number" /\ result # Pending) =>
        /\ result.kind = "returned"
        /\ IF call.text = None THEN result.value = None
           ELSE IF NonBlank(Val(call.text)) = {} THEN result.value = None
           ELSE IF FloatRaises(Bare(Val(call.text))) # "none" THEN result.value = None
           ELSE /\ result.value # None
                /\ LET n == float(Bare(Val(call.text)))
                   IN  SameNumber(Val(result.value),
                                  IF Wrapped(Trimmed(Val(call.text)))
                                  THEN [num |-> -n.num, den |-> n.den] ELSE n)
        /\ call.text = Some(<<"(", "1", ",", "2", "3", "4", ")">>)
              => result.value # None /\ SameNumber(Val(result.value), Num(-1234))
        /\ call.text = Some(<<"1", ",", "2", "3", "4", ".", "5">>)
              => result.value # None
                 /\ SameNumber(Val(result.value), [num |-> 12345, den |-> 10])
        /\ call.text = Some(<<"1", "x">>) => result.value = None
        /\ call.text = Some(<<"(", " ", "5", ")">>)
              => result.value # None /\ SameNumber(Val(result.value), Num(-5))

\* C16 witness: "(1,234)" was parsed to -1234
C16_Witness ==
    /\ call.fn = "parse_number"
    /\ call.text = Some(<<"(", "1", ",", "2", "3", "4", ")">>)
    /\ result = Returned(Some(Num(-1234)))


\* the entry is a candidate by its name, parses, and has root xbrl or html
Qualifies(entry) ==
    /\ entry.ext \in {".xbrl", ".xml", ".xhtml", ".html"}
    /\ entry.parses
    /\ entry.root \in {"xbrl", "html"}

Qualifying(entries) == {i \in 1..Len(entries) : Qualifies(entries[i])}

\* C17: extract_xbrl_bytes returns, for every archive: "not found" when no
\* entry is a candidate by its name that parses with root xbrl or html (so
\* for an archive of .xsd files only), and otherwise such an entry than which
\* no other such entry is larger, whatever larger entries come before it
\* that are no candidates, do not parse or have another root.
C17_LargestPayload ==
    (call.fn = "extract_xbrl_bytes" /\ result # Pending) =>
        /\ result.kind = "returned"
        /\ IF Qualifying(call.entries) = {} THEN result.value = None
           ELSE /\ result.value # None
                /\ \E i \in Qualifying(call.entries) :
                       call.entries[i] = Val(result.value)
                /\ \A j \in Qualifying(call.entries) :
                       call.entries[j].file_size <= Val(result.value).file_size
        /\ (\A i \in 1..Len(call.entries) : call.entries[i].ext = ".xsd")
              => result.value = None

\* C17 witness: a small page after a larger manifest, a larger page that
\* does not parse and a larger schema with an xbrl root was returned
C17_Witness ==
    /\ call.fn = "extract_xbrl_bytes"
    /\ Len(call.entries) = 3
    /\ call.entries[3] = Entry(".html", 2, TRUE, "html", <<>>)
    /\ call.entries[1].ext = ".xsd" /\ call.entries[1].root = "xbrl"
    /\ call.entries[2].ext = ".xml"
    /\ result = Returned(Some(Entry(".html", 2, TRUE, "html", <<>>)))

\* an archive of schema files only gave "not found"
C17_SchemaOnly ==
    /\ call.fn = "extract_xbrl_bytes"
    /\ call.entries = <<Entry(".xsd", 9, TRUE, "schema", <<>>)>>
    /\ result = Returned(None)


\* C20 as stated: select_metric_value resolves the same value on a fact
\* sequence and on every permutation of it.
C20_Original ==
    (call.fn = "select_metric_value twice" /\ result # Pending) =>
        \/ result.value[1] = None /\ result.value[2] = None
        \/ /\ result.value[1] # None
           /\ result.value[2] # None
           /\ Val(result.value[1]).value = Val(result.value[2]).value

\* the matching facts whose (periodEnd, consolidated) pair is the greatest
Top(facts, key) ==
    {i \in MatchingFacts(facts, key) :
        \A j \in MatchingFacts(facts, key) : AtLeast(facts[i], facts[j])}

\* C20: on a fact sequence and on a permutation of it select_metric_value
\* resolves facts of the same (periodEnd, consolidated) pair, each being the
\* first, in its sequence, of the matching facts of the greatest pair; the
\* resolved values are the same when those facts all carry one value, and
\* both calls return None when no fact matches.
C20_OrderBreaksTies ==
    (call.fn = "select_metric_value twice" /\ result # Pending) =>
        LET again == Permuted(call.facts, call.perm)
            a == result.value[1]
            b == result.value[2]
        IN  IF MatchingFacts(call.facts, call.key) = {}
            THEN a = None /\ b = None
            ELSE /\ a = Some(call.facts[Min(Top(call.facts, call.key))])
                 /\ b = Some(again[Min(Top(again, call.key))])
                 /\ PeriodOf(Val(a)) = PeriodOf(Val(b))
                 /\ Val(a).consolidated = Val(b).consolidated
                 /\ (\A i, j \in Top(call.facts, call.key) :
                        call.facts[i].value = call.facts[j].value)
                    => Val(a).value = Val(b).value

\* C20 witness: two consolidated facts of the same period end, of values
\* 120 and 130, were resolved to 120 in one order and to 130 in the other
C20_Witness ==
    /\ call.fn = "select_metric_value twice"
    /\ Len(call.facts) = 2
    /\ call.perm = <<2, 1>>
    /\ result.kind = "returned"
    /\ result.value[1] # None
    /\ result.value[2] # None
    /\ Val(result.value[1]).value = Num(120)
    /\ Val(result.value[2]).value = Num(130)


\* C21 as stated: whenever a fact matches employee_count,
\* extract_metrics_from_xbrl returns; the employee_count it stores is an
\* integer or null, and every other metric with a matching fact is kept.
C21_Original ==
    (/\ call.fn = "extract_metrics_from_xbrl"
     /\ result # Pending
     /\ MatchingFacts(call.facts, "employee_count") # {}) =>
        /\ result.kind = "returned"
        /\ \/ result.value["employee_count"] = None
           \/ Val(result.value["employee_count"]).den = 1
        /\ \A k \in MetricKeys \ {"employee_count"} :
              MatchingFacts(call.facts, k) # {} => result.value[k] # None


\* the fact select_metric_value chooses for the key: the first of the
\* matching facts of the greatest (periodEnd, consolidated) pair
Selected(facts, key) == facts[Min(Top(facts, key))]

\* the period ends of the facts selected for the metrics a fact matched
SelectedPeriodEnds(facts) ==
    {Val(Selected(facts, k).period_end) :
        k \in {m \in MetricKeys : /\ MatchingFacts(facts, m) # {}
                                  /\ Selected(facts, m).period_end # None}}

-----------------------------------------------------------------------------
(* The enrichment of one document among others *)

\* the keys enrich_document adds to a document
EnrichmentKeys ==
    MetricKeys \cup DerivedKeys \cup {"period_end", "all_numeric_facts_json"}

\* the task of document j ends in this step
Ends(j) == j \in DOMAIN task /\ task[j] = "running" /\ task'[j] # "running"

\* C27: the enriched record of a document depends only on that document and
\* its own archive: in every step, whatever the siblings in the batch, the
\* order in which the workers finish and the siblings that failed, a record
\* changes only in the step that ends its own task, and then it becomes
\* enrich_document of that record and of the archive fetched for it; before
\* that step the record is as it was listed.
C27_OwnDocumentOnly ==
    [][\A j \in 1..Len(all_documents) :
          /\ all_documents'[j] # all_documents[j] =>
                /\ Ends(j)
                /\ task'[j] = "done"
                /\ DOMAIN all_documents[j] \cap EnrichmentKeys = {}
                /\ \E zip \in ZipResponses :
                      /\ ~EnrichRaises(all_documents[j], zip)
                      /\ all_documents'[j] = enrich_document(all_documents[j], zip)
          /\ (Ends(j) /\ task'[j] = "done") =>
                \E zip \in ZipResponses :
                    all_documents'[j] = enrich_document(all_documents[j], zip)]_vars

\* C27 witness: in one batch a document's enrichment raised, and a sibling
\* that finished after it resolved its sales and its operating margin
C27_Witness ==
    \E i, j \in DOMAIN task :
        /\ task[i] = "raised"
        /\ task[j] = "done"
        /\ all_documents[j]["sales_amount"] # None
        /\ all_documents[j]["operating_margin"] # None

\* C28: when enrich_document raises for a document, the record is left as it
\* was before the call: the step changes nothing of it, it carries no
\* metric, ratio or raw-fact key, and it is emitted that way.
C28_RaiseLeavesRecord ==
    [][\A i \in DOMAIN task :
          /\ (Ends(i) /\ task'[i] = "raised") =>
                /\ all_documents'[i] = all_documents[i]
                /\ DOMAIN all_documents'[i] \cap EnrichmentKeys = {}
          /\ (task[i] = "raised" /\ i \notin taken /\ i \in taken') =>
                LET docs == GroupDocs(listedOn[i])'
                IN  /\ docs # <<>>
                    /\ docs[Len(docs)] = all_documents[i]
                    /\ DOMAIN docs[Len(docs)] \cap EnrichmentKeys = {}]_vars

\* C28 witness: a document whose enrichment raised was emitted, and it has
\* its listed fields and nothing else
C28_Witness ==
    \E i \in DOMAIN task :
        /\ task[i] = "raised"
        /\ i \in taken
        /\ DOMAIN all_documents[i] =
               DOMAIN Summary(None, None, None, <<>>, None) \cup {"_fetched_date"}


-----------------------------------------------------------------------------
(* The two tables of edinet_fetch_financials.py *)

\* C29 as stated: after any sequence of save_documents calls the rows of
\* table_docment_serect are exactly the rows of table_docment_all that have
\* a non-empty normalized security code, column for column.
C29_Original ==
    script = "main" =>
        SeqToSet(disk.table_docment_serect) =
            {r \in SeqToSet(disk.table_docment_all) : TruthyChars(r.sec_code)}


-----------------------------------------------------------------------------
(* The run history of edinet_fetch_financials.py *)

\* the run got past the credential check and has returned
Returns == script = "main" /\ apiKey /\ pc = "done"

\* the rows of the first j save_documents calls that were committed
RECURSIVE CommittedRows(_)
CommittedRows(j) ==
    IF j = 0 THEN 0
    ELSE CommittedRows(j - 1) +
         (IF saveLog[j].outcome = "ok" THEN Len(saveLog[j].docs) ELSE 0)

\* every date group was saved
AllGroupsSaved ==
    /\ Len(saveLog) = Len(enriched_by_date)
    /\ \A j \in 1..Len(saveLog) : saveLog[j].outcome = "ok"
    /\ taken = Positions

\* C30 as stated: a run that got past the credential check has appended
\* exactly one table_HistoryRun row when it returns.
C30_Original == Returns => Len(history) = 1

\* C30: a run of edinet_fetch_financials.py that gets past the credential
\* check appends at most one table_HistoryRun row, and none before its end;
\* when it returns it has appended exactly one, unless the write of the row
\* itself raised, which is reported by a warning and leaves no row. The
\* row's status is "success" exactly when the run returns 0, and then every
\* date group was saved and the error message is null; otherwise it is
\* "failed" with an error message. Its inserted_docs is the number of rows
\* of the save_documents batches that were committed.
C30_HistoryRow ==
    script = "main" =>
        /\ Len(history) <= 1
        /\ pc # "done" => history = <<>> /\ ~warned
        /\ ~apiKey => history = <<>> /\ ~warned
        /\ Returns => (Len(history) = 1 <=> ~warned)
        /\ history # <<>> =>
              LET row == history[1]
              IN  /\ rc # None
                  /\ row.status \in {"success", "failed"}
                  /\ row.status = "success" <=> rc = Some(0)
                  /\ row.status = "success" =>
                        AllGroupsSaved /\ row.error_message = None
                  /\ row.status = "failed" => row.error_message # None
                  /\ row.inserted_docs = CommittedRows(Len(saveLog))

\* C30 witness: the first date group was committed and the second save
\* raised; the run returned 1 with one row, "failed", counting the rows of
\* the first group only
C30_Witness ==
    /\ Returns
    /\ Len(saveLog) = 2
    /\ saveLog[1].outcome = "ok"
    /\ saveLog[2].outcome # "ok"
    /\ rc = Some(1)
    /\ Len(history) = 1
    /\ history[1].status = "failed"
    /\ history[1].inserted_docs = Len(saveLog[1].docs)
    /\ history[1].inserted_docs > 0
    /\ history[1].total_docs > history[1].inserted_docs


-----------------------------------------------------------------------------
(* Properties of parse_contexts and collect_numeric_facts *)

IsContext(elem) == local_name(elem.tag) = "context"

\* the element carries an id attribute that is not empty
HasId(elem) == "id" \in DOMAIN elem.attrib /\ elem.attrib["id"] # Some("")

\* element j is below element i
Descendant(doc, i, j) ==
    j > i /\ \A k \in (i + 1)..j : doc[k].depth > doc[i].depth

\* the instant and endDate elements below element i
PeriodLeaves(doc, i) ==
    {j \in 1..Len(doc) : /\ Descendant(doc, i, j)
                         /\ local_name(doc[j].tag) \in {"instant", "endDate"}}

\* the context elements with a non-empty id
Identified(doc) == {i \in 1..Len(doc) : IsContext(doc[i]) /\ HasId(doc[i])}

\* no later context of the payload has the id of context i
LastOfItsId(doc, i) ==
    \A j \in Identified(doc) : doc[j].attrib["id"] = doc[i].attrib["id"] => j <= i

\* C23: parse_contexts indexes exactly the context elements that carry a
\* non-empty id (a context without id or with an empty id is not indexed),
\* and the periodEnd of an indexed context is the text of the last instant
\* or endDate element below it in document order, null when it has none;
\* of two contexts with one id the table keeps the later.
C23_ContextTable ==
    (call.fn = "parse_contexts" /\ result # Pending) =>
        /\ result.kind = "returned"
        /\ DOMAIN result.value =
               {Val(call.doc[i].attrib["id"]) : i \in Identified(call.doc)}
        /\ \A i \in Identified(call.doc) :
              LastOfItsId(call.doc, i) =>
                 LET leaves == PeriodLeaves(call.doc, i)
                     entry == result.value[Val(call.doc[i].attrib["id"])]
                 IN  IF leaves = {} THEN entry.period_end = None
                     ELSE \E j \in leaves :
                             /\ \A k \in leaves : k <= j
                             /\ entry.period_end = call.doc[j].text

\* C23 witness: a context without id, then context c1 with an instant of
\* 2024-03-31 followed by an endDate of 2023-03-31; the table holds c1 only,
\* with the period end 2023-03-31
C23_Witness ==
    /\ call.fn = "parse_contexts"
    /\ call.doc = <<Element(<<"context">>, 1, NoAttrib, None),
                    Element(QTag("xbrli", "context"), 1, [id |-> Some("c1")], None),
                    Element(QTag("xbrli", "instant"), 2, NoAttrib,
                            Some(<<"2024-03-31">>)),
                    Element(<<"endDate">>, 2, NoAttrib, Some(<<"2023-03-31">>))>>
    /\ result.kind = "returned"
    /\ DOMAIN result.value = {"c1"}
    /\ result.value["c1"].period_end = Some(<<"2023-03-31">>)

\* the member's QName names the consolidated scope: it holds "Consolidated"
\* and not as the end of "NonConsolidated"
NamesConsolidatedScope(text) ==
    /\ text # None
    /\ \E k \in 1..Len(Val(text)) :
          /\ Val(text)[k] = "Consolidated"
          /\ k > 1 => Val(text)[k - 1] # "Non"

\* C24 as stated: the consolidated flag of an indexed context is true
\* exactly when an explicit member below it names a consolidated scope, and
\* false for a context whose members name only a non-consolidated scope.
C24_Original ==
    (call.fn = "parse_contexts" /\ result # Pending) =>
        \A i \in Identified(call.doc) :
            LastOfItsId(call.doc, i) =>
                (result.value[Val(call.doc[i].attrib["id"])].consolidated
                 <=> \E j \in 1..Len(call.doc) :
                        /\ Descendant(call.doc, i, j)
                        /\ local_name(call.doc[j].tag) = "explicitMember"
                        /\ NamesConsolidatedScope(call.doc[j].text))

\* the nonFraction elements with a name attribute
Inline(elem) ==
    local_name(elem.tag) = "nonFraction" /\ "name" \in DOMAIN elem.attrib

\* the k-th element of a set of positions
Nth(Q, k) == CHOOSE i \in Q : Cardinality({j \in Q : j <= i}) = k

\* the scale attribute of the element is an integer beyond the floats
ScaleOverflows(elem) ==
    /\ "scale" \in DOMAIN elem.attrib
    /\ IntTextRaises(Val(elem.attrib["scale"])) = "none"
    /\ IntText(Val(elem.attrib["scale"])) > MaxFloatPow10

\* the scale attribute of the element is an integer text
IntegerScale(elem) ==
    /\ "scale" \in DOMAIN elem.attrib
    /\ IntTextRaises(Val(elem.attrib["scale"])) = "none"

\* v is base * 10^n
IsScaledBy(v, base, n) ==
    IF n >= 0 THEN v.num * base.den = base.num * Pow10(n) * v.den
    ELSE v.num * base.den * Pow10(-n) = base.num * v.den

\* the fact is the one of the element: its name, its contextRef, and the
\* period end and the scope of the context the contextRef names
FactIsOf(fact, elem, table) ==
    /\ fact.name = IF Inline(elem) THEN LastPart(Val(elem.attrib["name"]))
                   ELSE local_name(elem.tag)
    /\ fact.contextRef = Get(elem.attrib, "contextRef")
    /\ LET named == /\ "contextRef" \in DOMAIN elem.attrib
                    /\ Val(elem.attrib["contextRef"]) \in DOMAIN table
       IN  IF named
           THEN /\ fact.period_end =
                       table[Val(elem.attrib["contextRef"])].period_end
                /\ fact.consolidated =
                       table[Val(elem.attrib["contextRef"])].consolidated
           ELSE fact.period_end = None /\ fact.consolidated = FALSE

\* the returned facts are, in document order, one fact for each position of Q
FactsAreOf(facts, doc, Q) ==
    /\ Len(facts) = Cardinality(Q)
    /\ \A k \in 1..Len(facts) :
          FactIsOf(facts[k], doc[Nth(Q, k)], parse_contexts(doc))

\* C25 as stated: collect_numeric_facts returns, in document order, one
\* fact for each element that is a nonFraction element with a name
\* attribute or any other element carrying a contextRef attribute, and whose
\* text parses to a number, and no other fact.
C25_Original ==
    (call.fn = "collect_numeric_facts" /\ result # Pending) =>
        /\ result.kind = "returned"
        /\ FactsAreOf(result.value, call.doc,
                      {i \in 1..Len(call.doc) :
                          /\ \/ Inline(call.doc[i])
                             \/ "contextRef" \in DOMAIN call.doc[i].attrib
                          /\ parse_number(call.doc[i].text) # None})

\* the elements of the two shapes whose text is a number
Numeric(doc) ==
    {i \in 1..Len(doc) :
        /\ \/ Inline(doc[i])
           \/ /\ "contextRef" \in DOMAIN doc[i].attrib
              /\ doc[i].attrib["contextRef"] # Some("")
        /\ parse_number(doc[i].text) # None}

\* C25: collect_numeric_facts raises exactly when an element it would
\* collect has an integer scale beyond the floats; otherwise it returns, in
\* document order, one fact for each element that is a nonFraction element
\* with a name attribute (fact name = what follows the last colon of the
\* name) or any other element with a non-empty contextRef (fact name = the
\* local tag), and whose text parses to a number; the fact's value is that
\* number, times 10^scale when the scale is an integer text; periodEnd and
\* consolidated are those of the context the contextRef names, null and
\* false when there is no such context.
C25_CollectedFacts ==
    (call.fn = "collect_numeric_facts" /\ result # Pending) =>
        LET Q == Numeric(call.doc)
        IN  /\ result.kind = "raised" <=> \E i \in Q : ScaleOverflows(call.doc[i])
            /\ result.kind = "returned" =>
                  /\ FactsAreOf(result.value, call.doc, Q)
                  /\ \A k \in 1..Len(result.value) :
                        LET elem == call.doc[Nth(Q, k)]
                            base == Val(parse_number(elem.text))
                        IN  IsScaledBy(result.value[k].value, base,
                                       IF IntegerScale(elem)
                                       THEN IntText(Val(elem.attrib["scale"]))
                                       ELSE 0)

\* C25 witness: an inline NetSales of text "1,200" in context c1 and an
\* Assets element whose contextRef names no context gave two facts, the
\* first consolidated with period end 2024-03-31, the second without either
C25_Witness ==
    /\ call.fn = "collect_numeric_facts"
    /\ Len(call.doc) = Len(FactContexts) + 2
    /\ result.kind = "returned"
    /\ Len(result.value) = 2
    /\ result.value[1].name = "NetSales"
    /\ result.value[1].value = Num(1200)
    /\ result.value[1].period_end = Some(<<"2024-03-31">>)
    /\ result.value[1].consolidated
    /\ result.value[2].name = "Assets"
    /\ result.value[2].contextRef = Some("c9")
    /\ result.value[2].period_end = None
    /\ ~result.value[2].consolidated

\* C26 as stated: whatever the scale attributes, collect_numeric_facts
\* returns; every element it collects is there, with its value times
\* 10^scale when the scale is an integer text and unscaled otherwise.
C26_Original ==
    (call.fn = "collect_numeric_facts" /\ result # Pending) =>
        /\ result.kind = "returned"
        /\ Len(result.value) = Cardinality(Numeric(call.doc))
        /\ \A k \in 1..Len(result.value) :
              LET elem == call.doc[Nth(Numeric(call.doc), k)]
              IN  IsScaledBy(result.value[k].value,
                             Val(parse_number(elem.text)),
                             IF IntegerScale(elem)
                             THEN IntText(Val(elem.attrib["scale"])) ELSE 0)

====
